---------------------------- MODULE Spec2Model ----------------------------
(***************************************************************************)
(* Model of the document-structuring scripts of ba-db-milvus               *)
(* (scripts/utils.py, scripts/generate_game_info.py,                       *)
(* scripts/generate_student_details.py, scripts/generate_school_details.py)*)
(*                                                                         *)
(* Strings.  A Python str is modelled as a sequence of tokens.  A token is *)
(* either one real character (" ", "\n", ",", ")", ":", "_", ".", a digit, *)
(* a letter) or an ASCII name standing for a fixed run of non-ASCII        *)
(* characters, none of which is white space or a delimiter:                *)
(*     "XGRW"  = the relation key          (U+76F8 U+5173 U+4EBA U+7269)   *)
(*     "JBZL"  = the header label          (U+57FA U+672C U+8D44 U+6599)   *)
(*     "XSDA"  = the student header label  (U+5B66 U+751F U+6863 U+6848)   *)
(*     "FWRP"  = full-width right parenthesis   (U+FF09)                   *)
(*     "FWLP"  = full-width left parenthesis    (U+FF08)                   *)
(*     "FWCOL" = full-width colon               (U+FF1A)                   *)
(*     "DUN"   = ideographic enumeration comma  (U+3001)                   *)
(*     "FW1"   = full-width digit one           (U+FF11)                   *)
(* str.strip, str.split, str.replace, str.find and str.join are modelled   *)
(* on token sequences by what they do.                                     *)
(*                                                                         *)
(* AST nodes.  A mistune node (a dict) is a record                         *)
(*   [type, level, raw, title, children]                                   *)
(* level = 0 stands for "no attrs.level", title = <<>> for "no attrs.title"*)
(* (both read through .get with a default), and only nodes of a type in    *)
(* RawTypes carry the key "raw"; only nodes outside NoChildrenTypes carry  *)
(* the key "children".                                                     *)
(***************************************************************************)
EXTENDS Integers, Sequences, FiniteSets, TLC

VARIABLES
    pc,               \* position of the running script
    ast,              \* the top-level node list of the document
    section_names,    \* extract_sections: the titles of interest
    si,               \* extract_sections: index of the node the for loop is at
    sections,         \* extract_sections: title -> list of node references
    current_section,  \* extract_sections: title of the open section (<<>> = None or "")
    current_content,  \* extract_sections: node references collected for it
    nodes,            \* parse_section_by_level: the node list of the top call
    level,            \* parse_section_by_level: the heading level of the top call
    gi,               \* parse_section_by_level: index of the node the for loop is at
    gstate,           \* parse_section_by_level: [result, current, raised] of the top call
    variant,          \* extract_profile_table_from_ast: "student" or "school" script
    ni,               \* extract_profile_table_from_ast: index of the top-level node scanned
    bi,               \* extract_profile_table_from_ast: index of the table child scanned
    i,                \* extract_profile_table_from_ast: the row cursor (1-based)
    profile,          \* extract_profile_table_from_ast: the entries whose value is a string
    related_persons,  \* extract_profile_table_from_ast: the names last extracted
    profile_list,     \* the entry under RelListKey when its value is a list: <<names>>, else <<>>
    consumed,         \* history: the rows the cursor jumped over as relation value rows
    dir_files,        \* __main__: the file names md_path.glob("*.md") returned, in its order
    md_files,         \* __main__: the file list, replaced by the retained files at line 251
    fj,               \* __main__: index of the file the latest_files loop is at
    latest_files,     \* __main__: name -> (revid, md_file), in insertion order
    rscript,          \* record assembly: "student", "school" or "game" script
    rname,            \* record assembly: the entity name taken from the file name
    structured,       \* record assembly: the dict structured, in insertion order
    unified,          \* school: the dict unified, in insertion order
    uidx,             \* school: index of the item the unify loop is at
    written,          \* the record written by json.dump: <<>> none, <<record>>
    qi,               \* parse_quotes_section: index of the node the for loop is at
    qstate,           \* parse_quotes_section: [quotes, in_quotes, current_version, stopped]
    tnode,            \* extract_text_from_node: the node it is called on
    text_utils,       \* the string the function of utils.py returned
    text_school,      \* the string the function of the school script returned
    fscript,          \* flatten_section_content: "game", "student" or "school" script
    fnodes,           \* flatten_section_content: the section nodes it is called on
    fi,               \* flatten_section_content: index of the node the for loop is at
    fstate,           \* flatten_section_content: [result, current_sub]
    outputs,          \* the values the functions applied to the document ast returned
    wiki,             \* get_page_text: what the wiki answers for each page title
    title,            \* get_page_text: the title of the running call
    redirect_count,   \* get_page_text: the redirect_count of the running call
    attempt,          \* get_page_text: the attempt number of the running call (tenacity)
    outcome           \* get_page_text: how the outermost call ended

vars == <<pc, ast, section_names, si, sections, current_section, current_content,
          nodes, level, gi, gstate,
          variant, ni, bi, i, profile, related_persons, profile_list, consumed,
          dir_files, md_files, fj, latest_files,
          rscript, rname, structured, unified, uidx, written,
          qi, qstate, tnode, text_utils, text_school,
          fscript, fnodes, fi, fstate, outputs,
          wiki, title, redirect_count, attempt, outcome>>

segVars == <<section_names, si, sections, current_section, current_content>>

groupVars == <<nodes, level, gi, gstate>>

profVars == <<variant, ni, bi, i, profile, related_persons, profile_list, consumed>>

selVars == <<dir_files, md_files, fj, latest_files>>

recVars == <<rscript, rname, structured, unified, uidx, written>>

quoteVars == <<qi, qstate>>

textVars == <<tnode, text_utils, text_school>>

flatVars == <<fscript, fnodes, fi, fstate>>

docVars == <<outputs>>

pageVars == <<wiki, title, redirect_count, attempt, outcome>>

\* the variables of the components added last
lateVars == <<flatVars, docVars, pageVars>>

\* the variables a component leaves alone
notSeg == <<groupVars, profVars, selVars, recVars, quoteVars, textVars, lateVars>>

notGroup == <<ast, segVars, profVars, selVars, recVars, quoteVars, textVars, lateVars>>

notProf == <<segVars, groupVars, selVars, recVars, quoteVars, textVars, lateVars>>

notSel == <<ast, segVars, groupVars, profVars, recVars, quoteVars, textVars, lateVars>>

notRec == <<segVars, groupVars, profVars, selVars, quoteVars, textVars, lateVars>>

notQuote == <<segVars, groupVars, profVars, selVars, recVars, textVars, lateVars>>

notText == <<segVars, groupVars, profVars, selVars, recVars, quoteVars, lateVars>>

SegIdle ==
    /\ section_names = {} /\ si = 0 /\ sections = <<>>
    /\ current_section = <<>> /\ current_content = <<>>

GroupIdle == nodes = <<>> /\ level = 0 /\ gi = 0 /\ gstate = <<>>

ProfIdle ==
    /\ variant = "" /\ ni = 0 /\ bi = 0 /\ i = 0 /\ profile = <<>>
    /\ related_persons = <<>> /\ profile_list = <<>> /\ consumed = {}

SelIdle == dir_files = <<>> /\ md_files = <<>> /\ fj = 0 /\ latest_files = <<>>

RecIdle ==
    /\ rscript = "" /\ rname = <<>> /\ structured = <<>>
    /\ unified = <<>> /\ uidx = 0 /\ written = <<>>

QuoteIdle == qi = 0 /\ qstate = <<>>

TextIdle == tnode = <<>> /\ text_utils = <<>> /\ text_school = <<>>

FlatIdle == fscript = "" /\ fnodes = <<>> /\ fi = 0 /\ fstate = <<>>

DocIdle == outputs = <<>>

PageIdle ==
    /\ wiki = <<>> /\ title = "" /\ redirect_count = 0 /\ attempt = 0 /\ outcome = ""

LateIdle == FlatIdle /\ DocIdle /\ PageIdle

\* the variables a late component leaves alone
notFlat == <<ast, segVars, groupVars, profVars, selVars, recVars, quoteVars, textVars,
             docVars, pageVars>>

notDoc == <<segVars, groupVars, profVars, selVars, recVars, quoteVars, textVars,
            flatVars, pageVars>>

notPage == <<ast, segVars, groupVars, profVars, selVars, recVars, quoteVars, textVars,
             flatVars, docVars>>


-----------------------------------------------------------------------------
(* Bounded input spaces *)

SeqUpTo(S, n) == UNION {[1..k -> S] : k \in 0..n}

Range(s) == {s[k] : k \in 1..Len(s)}

-----------------------------------------------------------------------------
(* Python str primitives on token sequences *)

Whitespace == {" ", "\n"}

RECURSIVE lstrip(_)
lstrip(s) ==
    IF s = <<>> THEN <<>>
    ELSE IF Head(s) \in Whitespace THEN lstrip(Tail(s)) ELSE s

RECURSIVE rstrip(_)
rstrip(s) ==
    IF s = <<>> THEN <<>>
    ELSE IF s[Len(s)] \in Whitespace THEN rstrip(SubSeq(s, 1, Len(s) - 1)) ELSE s

\* str.strip()
strip(s) == rstrip(lstrip(s))

\* sep.join(parts)
RECURSIVE join(_, _)
join(sep, parts) ==
    IF parts = <<>> THEN <<>>
    ELSE IF Len(parts) = 1 THEN parts[1]
    ELSE parts[1] \o sep \o join(sep, Tail(parts))

\* s.replace(old, new) for one-token old and new
replace(s, old, new) == [k \in 1..Len(s) |-> IF s[k] = old THEN new ELSE s[k]]

\* s.split(sep) for a one-token sep: always at least one part, empty parts kept
RECURSIVE split(_, _)
split(s, sep) ==
    IF \A k \in 1..Len(s) : s[k] # sep THEN <<s>>
    ELSE LET p == CHOOSE k \in 1..Len(s) : s[k] = sep /\ \A j \in 1..(k - 1) : s[j] # sep
         IN  <<SubSeq(s, 1, p - 1)>> \o split(SubSeq(s, p + 1, Len(s)), sep)

\* s.find(tok) == -1
NotFound(s, tok) == \A k \in 1..Len(s) : s[k] # tok

-----------------------------------------------------------------------------
(* AST nodes *)

RawTypes == {"text", "codespan"}

NoChildrenTypes == {"text", "blank_line", "codespan"}

MkNode(t, l, r, ti, ch) == [type |-> t, level |-> l, raw |-> r, title |-> ti, children |-> ch]

Text(s) == MkNode("text", 0, s, <<>>, <<>>)

Heading(l, s) == MkNode("heading", l, <<>>, <<>>, <<Text(s)>>)

Paragraph(s) == MkNode("paragraph", 0, <<>>, <<>>, <<Text(s)>>)

BlankLine == MkNode("blank_line", 0, <<>>, <<>>, <<>>)

\* scripts/utils.py extract_text_from_node
RECURSIVE extract_text_from_node(_)
RECURSIVE ConcatNodeText(_)
\* bug variant: the title of an image is not looked at
extract_text_from_node_NoTitle(node) ==
    IF node.type = "text" THEN node.raw
    ELSE IF node.type \notin NoChildrenTypes THEN ConcatNodeText(node.children)
    ELSE <<>>

extract_text_from_node(node) ==
    IF node.type = "text" THEN node.raw
    ELSE IF node.type \in {"strong", "emphasis", "link", "paragraph"}
         THEN ConcatNodeText(node.children)
    ELSE IF node.type = "image"
         THEN IF node.title # <<>> THEN node.title ELSE ConcatNodeText(node.children)
    ELSE IF node.type \notin NoChildrenTypes THEN ConcatNodeText(node.children)
    ELSE <<>>

\* "".join(extract_text_from_node(child) for child in children)
ConcatNodeText(children) ==
    IF children = <<>> THEN <<>>
    ELSE extract_text_from_node(Head(children)) \o ConcatNodeText(Tail(children))

\* node.get("type") == "heading" and node.get("attrs", {}).get("level") == level
IsHeadingAt(node, lvl) == node.type = "heading" /\ node.level = lvl

-----------------------------------------------------------------------------
(* extract_sections (Section Segmenter), one action per loop iteration.    *)
(* The three scripts carry the same function.  A list of node references   *)
(* is modelled as the list of the positions of the nodes in ast.           *)

MaxSegLen == 5

TitleQ == <<"Q">>

TitleN == <<"N">>

SegTitles == {TitleQ, TitleN}

SegPool ==
    { Heading(2, TitleQ), Heading(2, <<" ">> \o TitleQ \o <<" ">>), Heading(2, TitleN),
      Heading(2, <<" ">>), Heading(3, TitleQ), Paragraph(<<"x">>), BlankLine }

\* bug variant: the membership test is dropped, any titled section is kept
Qualifies_AnyTitle(cur, names) == cur # <<>>

\* the truthiness test "current_section and current_section in section_names"
Qualifies(cur, names) == cur # <<>> /\ cur \in names

\* bug variant: an entry already present is not overwritten (first occurrence wins)
Flush_FirstWins(secs, cur, content, names) ==
    IF Qualifies(cur, names) /\ cur \notin DOMAIN secs
    THEN [t \in DOMAIN secs \cup {cur} |-> IF t = cur THEN content ELSE secs[t]]
    ELSE secs

\* sections[current_section] = list(current_content), under the membership rule
Flush(secs, cur, content, names) ==
    IF Qualifies(cur, names)
    THEN [t \in DOMAIN secs \cup {cur} |-> IF t = cur THEN content ELSE secs[t]]
    ELSE secs

EmptyMap == [t \in {} |-> <<>>]

InitSeg ==
    /\ pc = "seg_loop"
    /\ ast \in SeqUpTo(SegPool, MaxSegLen)
    /\ section_names \in SUBSET SegTitles
    /\ si = 1
    /\ sections = EmptyMap
    /\ current_section = <<>>
    /\ current_content = <<>>
    /\ GroupIdle
    /\ ProfIdle
    /\ SelIdle
    /\ RecIdle
    /\ QuoteIdle
    /\ TextIdle
    /\ LateIdle

\* a level-2 heading: save the previous section, open the new one
SegHeading ==
    /\ pc = "seg_loop"
    /\ si <= Len(ast)
    /\ IsHeadingAt(ast[si], 2)
    /\ sections' = Flush(sections, current_section, current_content, section_names)
    /\ current_section' = strip(extract_text_from_node(ast[si]))
    /\ current_content' = <<>>
    /\ si' = si + 1
    /\ UNCHANGED <<pc, ast, section_names>>
    /\ UNCHANGED notSeg

\* any other node: collected when the open section is of interest
SegOther ==
    /\ pc = "seg_loop"
    /\ si <= Len(ast)
    /\ ~IsHeadingAt(ast[si], 2)
    /\ current_content' = IF Qualifies(current_section, section_names)
                          THEN Append(current_content, si)
                          ELSE current_content
    /\ si' = si + 1
    /\ UNCHANGED <<pc, ast, section_names, sections, current_section>>
    /\ UNCHANGED notSeg

\* bug variant: the section open at end of input is not saved
SegReturn_NoFinalFlush ==
    /\ pc = "seg_loop"
    /\ si > Len(ast)
    /\ pc' = "seg_done"
    /\ UNCHANGED <<ast, section_names, si, sections, current_section, current_content>>
    /\ UNCHANGED notSeg

\* end of input: save the last section and return
SegReturn ==
    /\ pc = "seg_loop"
    /\ si > Len(ast)
    /\ sections' = Flush(sections, current_section, current_content, section_names)
    /\ pc' = "seg_done"
    /\ UNCHANGED <<ast, section_names, si, current_section, current_content>>
    /\ UNCHANGED notSeg

NextSeg == SegHeading \/ SegOther \/ SegReturn

SpecSeg == InitSeg /\ [][NextSeg]_vars

-----------------------------------------------------------------------------
(* Properties of extract_sections *)

IsH2(p) == IsHeadingAt(ast[p], 2)

TitleAt(p) == strip(extract_text_from_node(ast[p]))

\* a qualifying heading: a level-2 heading whose title is a title of interest
QualH(p) == IsH2(p) /\ TitleAt(p) \in section_names

\* position of the nearest level-2 heading before p, 0 when there is none
PrevH2(p) ==
    IF \E h \in 1..(p - 1) : IsH2(h)
    THEN CHOOSE h \in 1..(p - 1) : IsH2(h) /\ \A j \in (h + 1)..(p - 1) : ~IsH2(j)
    ELSE 0

\* position of the next level-2 heading after h, Len(ast) + 1 when there is none
NextH2(h) ==
    IF \E e \in (h + 1)..Len(ast) : IsH2(e)
    THEN CHOOSE e \in (h + 1)..Len(ast) : IsH2(e) /\ \A j \in (h + 1)..(e - 1) : ~IsH2(j)
    ELSE Len(ast) + 1

\* the node run following the heading at h
RunAfter(h) == [k \in 1..(NextH2(h) - h - 1) |-> h + k]

\* the places of the returned map that hold the node at position p
Slots(p) == {<<t, k>> \in (DOMAIN sections) \X (1..Len(ast)) :
                k <= Len(sections[t]) /\ sections[t][k] = p}

\* the title of the heading at h does not recur at a later level-2 heading
LastOfTitle(h) == \A j \in (h + 1)..Len(ast) : IsH2(j) => TitleAt(j) # TitleAt(h)

\* C2 as stated: every node after a qualifying level-2 heading up to and
\* including the next qualifying heading belongs to exactly one returned
\* section content.
C2_Original ==
    pc = "seg_done" =>
        \A h \in 1..Len(ast) : \A h2 \in (h + 1)..Len(ast) :
            (QualH(h) /\ QualH(h2) /\ \A j \in (h + 1)..(h2 - 1) : ~QualH(j))
                => \A p \in (h + 1)..h2 : Cardinality(Slots(p)) = 1

\* C2 amended: every node that is not a level-2 heading and whose nearest
\* preceding level-2 heading h is qualifying with a non-empty title, the title
\* of h not recurring at a later level-2 heading, belongs to exactly one
\* returned section content, the one of h's title; a level-2 heading node (the
\* later boundary included) belongs to no section content.
C2_Completeness ==
    pc = "seg_done" =>
        \A p \in 1..Len(ast) :
            /\ IsH2(p) => Slots(p) = {}
            /\ (~IsH2(p) /\ PrevH2(p) # 0 /\ QualH(PrevH2(p)) /\ TitleAt(PrevH2(p)) # <<>>
                         /\ LastOfTitle(PrevH2(p)))
                  => /\ Cardinality(Slots(p)) = 1
                     /\ \A s \in Slots(p) : s[1] = TitleAt(PrevH2(p))

C2_Witness ==
    /\ pc = "seg_done"
    /\ \E h \in 1..Len(ast) : \E p \in (h + 1)..Len(ast) : \E h2 \in (p + 1)..Len(ast) :
          /\ QualH(h) /\ QualH(h2) /\ ~IsH2(p) /\ PrevH2(p) = h /\ LastOfTitle(h)
          /\ Cardinality(Slots(p)) = 1

\* C3: every key of the returned map is a title of interest, and no section
\* holds a node that precedes the first level-2 heading, a node under a
\* level-2 heading whose title is not of interest, or a level-2 heading.
C3_InterestFilter ==
    /\ DOMAIN sections \subseteq section_names
    /\ \A t \in DOMAIN sections : \A k \in 1..Len(sections[t]) :
          LET p == sections[t][k]
          IN  /\ ~IsH2(p)
              /\ PrevH2(p) # 0
              /\ TitleAt(PrevH2(p)) \in section_names

C3_Witness ==
    /\ pc = "seg_done"
    /\ DOMAIN sections # {}
    /\ \E t \in DOMAIN sections : sections[t] # <<>>
    /\ \E p \in 1..Len(ast) : ~IsH2(p) /\ PrevH2(p) = 0
    /\ \E p \in 1..Len(ast) : ~IsH2(p) /\ PrevH2(p) # 0 /\ ~QualH(PrevH2(p))
                                /\ TitleAt(PrevH2(p)) # <<>>

\* the positions of the level-2 headings titled t
Occurrences(t) == {h \in 1..Len(ast) : IsH2(h) /\ TitleAt(h) = t}

LastOccurrence(t) == CHOOSE h \in Occurrences(t) : \A j \in Occurrences(t) : j <= h

\* C4: when a title of interest occurs at more than one level-2 heading, its
\* entry is exactly the node run following the last occurrence, also when
\* that run is empty; nodes under earlier occurrences are absent.
C4_LastOccurrenceWins ==
    pc = "seg_done" =>
        \A t \in section_names :
            Cardinality(Occurrences(t)) > 1
                => /\ t \in DOMAIN sections
                   /\ sections[t] = RunAfter(LastOccurrence(t))
                   /\ \A h \in Occurrences(t) \ {LastOccurrence(t)} :
                         \A p \in Range(RunAfter(h)) : Slots(p) = {}

C4_Witness ==
    /\ pc = "seg_done"
    /\ \E t \in section_names :
          /\ Cardinality(Occurrences(t)) > 1
          /\ \E h \in Occurrences(t) : h # LastOccurrence(t) /\ RunAfter(h) # <<>>
          /\ t \in DOMAIN sections
          /\ sections[t] = <<>>

-----------------------------------------------------------------------------
(* Leaf text forms (generate_game_info.py lines 87-97) *)

ListItem(s) == MkNode("list_item", 0, <<>>, <<>>, <<Text(s)>>)

ListNode(items) == MkNode("list", 0, <<>>, <<>>, items)

Cell(ch) == MkNode("table_cell", 0, <<>>, <<>>, ch)

Row(cells) == MkNode("table_row", 0, <<>>, <<>>, cells)

TableHead(cells) == MkNode("table_head", 0, <<>>, <<>>, cells)

TableBody(rows) == MkNode("table_body", 0, <<>>, <<>>, rows)

Table(ch) == MkNode("table", 0, <<>>, <<>>, ch)

StrippedText(n) == strip(extract_text_from_node(n))

\* "| " + " | ".join(cell texts) + " |"
RowLine(row) ==
    <<"|", " ">> \o join(<<" ", "|", " ">>, [k \in 1..Len(row.children) |->
                                                StrippedText(row.children[k])])
                 \o <<" ", "|">>

\* one line per table_row child
RECURSIVE RowLines(_)
RowLines(rows) ==
    IF rows = <<>> THEN <<>>
    ELSE (IF Head(rows).type = "table_row" THEN <<RowLine(Head(rows))>> ELSE <<>>)
         \o RowLines(Tail(rows))

\* the lines of the table_row children of the head and body children, in order
RECURSIVE TableLines(_)
TableLines(children) ==
    IF children = <<>> THEN <<>>
    ELSE (IF Head(children).type \in {"table_head", "table_body"}
          THEN RowLines(Head(children).children)
          ELSE <<>>) \o TableLines(Tail(children))

\* scripts/utils.py extract_text_from_table
extract_text_from_table(table_node) == join(<<"\n">>, TableLines(table_node.children))

\* the stripped texts of the list_item children
RECURSIVE ItemTexts(_)
ItemTexts(items) ==
    IF items = <<>> THEN <<>>
    ELSE (IF Head(items).type = "list_item" THEN <<StrippedText(Head(items))>> ELSE <<>>)
         \o ItemTexts(Tail(items))

LeafTypes == {"paragraph", "list", "table"}

\* the text form of a paragraph, list or table node
LeafText(node) ==
    IF node.type = "paragraph" THEN StrippedText(node)
    ELSE IF node.type = "list"
         THEN join(<<"\n">>, ItemTexts(node.children))
    ELSE extract_text_from_table(node)

-----------------------------------------------------------------------------
(* parse_section_by_level (Recursive Level Grouper).                       *)
(* A Section is [title, content, subsections]; subsections = <<>> stands   *)
(* for the absent key (the key is only ever created with a non-empty list).*)
(* The loop state is [result, current, raised]: current is <<>> for None   *)
(* or <<section>>, raised tells that a TypeError left the call.            *)

MaxGroupLen == 5

TopLevel == 3

NewSection(t) == [title |-> t, content |-> <<>>, subsections |-> <<>>]

PSLInit == [result |-> <<>>, current |-> <<>>, raised |-> FALSE]

\* nodes.index(node): the first position holding an equal node
IndexOf(ns, node) == CHOOSE k \in 1..Len(ns) : ns[k] = node /\ \A j \in 1..(k - 1) : ns[j] # node

\* the while loop of lines 106-111 stops at the first heading from idx on whose
\* level is <= lvl or is missing (the comparison with None raises)
IsStop(n, lvl) == n.type = "heading" /\ n.level <= lvl

RunStop(ns, idx, lvl) ==
    IF \E e \in idx..Len(ns) : IsStop(ns[e], lvl)
    THEN CHOOSE e \in idx..Len(ns) : IsStop(ns[e], lvl) /\ \A j \in idx..(e - 1) : ~IsStop(ns[j], lvl)
    ELSE Len(ns) + 1

RunRaises(ns, idx, lvl) == RunStop(ns, idx, lvl) <= Len(ns) /\ ns[RunStop(ns, idx, lvl)].level = 0

\* sub_nodes: the node itself, then the nodes from index(node) + 1 to the stop
SubNodes(ns, node, lvl) ==
    <<node>> \o SubSeq(ns, IndexOf(ns, node) + 1, RunStop(ns, IndexOf(ns, node) + 1, lvl) - 1)

AppendContent(cur, text) ==
    <<[cur[1] EXCEPT !.content = Append(@, text)]>>

ExtendSubsections(cur, subs) ==
    <<[cur[1] EXCEPT !.subsections = @ \o subs]>>

RECURSIVE parse_section_by_level(_, _)
RECURSIVE PSLNode(_, _, _, _)
RECURSIVE PSLFrom(_, _, _, _)

\* one iteration of the for loop, on ns[k]
PSLNode(ns, lvl, k, st) ==
    LET node == ns[k] IN
    IF IsHeadingAt(node, lvl)
    THEN [st EXCEPT !.result = IF st.current # <<>> THEN Append(@, st.current[1]) ELSE @,
                    !.current = <<NewSection(StrippedText(node))>>]
    ELSE IF node.type \in LeafTypes
    THEN IF LeafText(node) # <<>> /\ st.current # <<>>
         THEN [st EXCEPT !.current = AppendContent(@, LeafText(node))]
         ELSE st
    ELSE IF node.type = "heading" /\ node.level = 0
    THEN [st EXCEPT !.raised = TRUE]
    ELSE IF node.type = "heading" /\ node.level > lvl
    THEN IF RunRaises(ns, IndexOf(ns, node) + 1, lvl)
         THEN [st EXCEPT !.raised = TRUE]
         ELSE LET subs == parse_section_by_level(SubNodes(ns, node, lvl), lvl + 1) IN
              IF subs.raised THEN [st EXCEPT !.raised = TRUE]
              ELSE IF subs.result # <<>> /\ st.current # <<>>
                   THEN [st EXCEPT !.current = ExtendSubsections(@, subs.result)]
                   ELSE st
    ELSE st

\* the for loop from position k on; an exception leaves the loop
PSLFrom(ns, lvl, k, st) ==
    IF k > Len(ns) \/ st.raised THEN st
    ELSE PSLFrom(ns, lvl, k + 1, PSLNode(ns, lvl, k, st))

\* bug variant: the Section open at the end of input is not pushed
PSLReturn_NoFinalPush(st) ==
    [raised |-> st.raised, result |-> IF st.raised THEN <<>> ELSE st.result]

\* lines 115-117: the open section is pushed, the list returned
PSLReturn(st) ==
    [raised |-> st.raised,
     result |-> IF st.raised THEN <<>>
                ELSE IF st.current # <<>> THEN Append(st.result, st.current[1])
                ELSE st.result]

parse_section_by_level(ns, lvl) == PSLReturn(PSLFrom(ns, lvl, 1, PSLInit))

GroupPool ==
    { Heading(2, <<"Z">>), Heading(3, <<"A">>), Heading(4, <<"B">>), Heading(5, <<"C">>),
      Paragraph(<<"x">>), Paragraph(<<" ", "y">>), Paragraph(<<" ">>),
      ListNode(<<ListItem(<<"i">>), ListItem(<<"j", " ">>)>>),
      BlankLine }

\* a heading node without attrs.level
NoLevelHeading == Heading(0, <<"N">>)

\* node lists holding such a heading are taken up to this length
MaxMalformedLen == 3

InitGroup ==
    /\ pc = "group_loop"
    /\ nodes \in SeqUpTo(GroupPool, MaxGroupLen)
                   \cup SeqUpTo(GroupPool \cup {NoLevelHeading}, MaxMalformedLen)
    /\ level = TopLevel
    /\ gi = 1
    /\ gstate = PSLInit
    /\ ast = <<>>
    /\ SegIdle
    /\ ProfIdle
    /\ SelIdle
    /\ RecIdle
    /\ QuoteIdle
    /\ TextIdle
    /\ LateIdle

GroupStep ==
    /\ pc = "group_loop"
    /\ gi <= Len(nodes)
    /\ gstate' = PSLNode(nodes, level, gi, gstate)
    /\ gi' = gi + 1
    /\ pc' = IF gstate'.raised THEN "group_raised" ELSE pc
    /\ UNCHANGED <<nodes, level>>
    /\ UNCHANGED notGroup

\* a heading at exactly the level: seal the open section, open a new one
GroupHeading == gi <= Len(nodes) /\ IsHeadingAt(nodes[gi], level) /\ GroupStep

\* a paragraph, list or table
GroupLeaf == gi <= Len(nodes) /\ nodes[gi].type \in LeafTypes /\ GroupStep

\* a heading that is not at the level: a deeper one starts a recursive call
GroupOtherHeading ==
    gi <= Len(nodes) /\ nodes[gi].type = "heading" /\ nodes[gi].level # level /\ GroupStep

\* any other node is passed over
GroupIgnored ==
    gi <= Len(nodes) /\ nodes[gi].type \notin LeafTypes \cup {"heading"} /\ GroupStep

GroupReturn ==
    /\ pc = "group_loop"
    /\ gi > Len(nodes)
    /\ gstate' = [gstate EXCEPT !.result = PSLReturn(gstate).result]
    /\ pc' = "group_done"
    /\ UNCHANGED <<nodes, level, gi>>
    /\ UNCHANGED notGroup

NextGroup == GroupHeading \/ GroupLeaf \/ GroupOtherHeading \/ GroupIgnored \/ GroupReturn

SpecGroup == InitGroup /\ [][NextGroup]_vars

-----------------------------------------------------------------------------
(* Properties of parse_section_by_level *)

\* the positions of the heading nodes of ns, in order
HeadingPositions(ns) == SelectSeq([k \in 1..Len(ns) |-> k], LAMBDA k : ns[k].type = "heading")

\* the headings of ns are strictly nested from lvl on: the k-th heading has
\* level lvl + k - 1
StrictlyNested(ns, lvl) ==
    LET hs == HeadingPositions(ns) IN
    /\ hs # <<>>
    /\ \A k \in 1..Len(hs) : ns[hs[k]].level = lvl + k - 1

\* the non-empty text forms of the leaf nodes at the positions a+1 .. b-1
LeafTextsBetween(ns, a, b) ==
    LET leaves == SelectSeq([k \in 1..Len(ns) |-> k],
                            LAMBDA k : /\ a < k /\ k < b
                                       /\ ns[k].type \in LeafTypes
                                       /\ LeafText(ns[k]) # <<>>)
    IN  [k \in 1..Len(leaves) |-> LeafText(ns[leaves[k]])]

\* the Section of the j-th heading when every Section carries only the leaf
\* content between its own heading and the next heading, and holds the
\* Section of the next heading as its only subsection
RECURSIVE NestedChain(_, _, _)
NestedChain(ns, hs, j) ==
    [title |-> StrippedText(ns[hs[j]]),
     content |-> LeafTextsBetween(ns, hs[j], IF j < Len(hs) THEN hs[j + 1] ELSE Len(ns) + 1),
     subsections |-> IF j < Len(hs) THEN <<NestedChain(ns, hs, j + 1)>> ELSE <<>>]

\* C1 as stated: for strictly nested headings (levels 3, 4, 5, ...) the result
\* is one top Section holding one Section per deeper level, one inside the
\* other, and every Section's content holds only the text forms of the leaf
\* nodes between its own heading and the next heading of any level.
C1_Original ==
    (pc = "group_done" /\ StrictlyNested(nodes, level))
        => gstate.result = <<NestedChain(nodes, HeadingPositions(nodes), 1)>>

-----------------------------------------------------------------------------
(* extract_profile_table_from_ast (Profile Table Extractor), student and   *)
(* school scripts, one action per loop iteration.                          *)

MaxRows == 3

RelKey == <<"XGRW">>

\* the key of line 88, the relation key followed by "_list"
RelListKey == RelKey \o <<"_", "l", "i", "s", "t">>

\* the header labels a row is skipped for
HeaderLabels(v) == IF v = "student" THEN {<<"XSDA">>, <<"JBZL">>} ELSE {<<"JBZL">>}

Link(s) == MkNode("link", 0, <<>>, <<>>, <<Text(s)>>)

Strong(ch) == MkNode("strong", 0, <<>>, <<>>, ch)

Image(ti, alt) == MkNode("image", 0, <<>>, ti, <<Text(alt)>>)

\* generate_student_details.py extract_text_from_cell
RECURSIVE extract_text_from_cell(_)
RECURSIVE ConcatCellText(_)
extract_text_from_cell(cell) ==
    IF cell.type \in RawTypes THEN cell.raw
    ELSE IF cell.type \notin NoChildrenTypes THEN ConcatCellText(cell.children)
    ELSE <<>>

ConcatCellText(children) ==
    IF children = <<>> THEN <<>>
    ELSE extract_text_from_cell(Head(children)) \o ConcatCellText(Tail(children))

\* the stripped raw of every text child of a link
RECURSIVE LinkChildNames(_)
LinkChildNames(children) ==
    IF children = <<>> THEN <<>>
    ELSE (IF Head(children).type = "text" THEN <<strip(Head(children).raw)>> ELSE <<>>)
         \o LinkChildNames(Tail(children))

\* the stripped, non-empty parts of a comma separated text
RECURSIVE NonEmptyStripped(_)
NonEmptyStripped(parts) ==
    IF parts = <<>> THEN <<>>
    ELSE (IF strip(Head(parts)) # <<>> THEN <<strip(Head(parts))>> ELSE <<>>)
         \o NonEmptyStripped(Tail(parts))

\* generate_student_details.py extract_links_from_cell
RECURSIVE extract_links_from_cell(_)
RECURSIVE LinksOfChildren(_)
extract_links_from_cell(cell) ==
    IF cell.type = "link" THEN LinkChildNames(cell.children)
    ELSE IF cell.type = "text"
         THEN NonEmptyStripped(split(replace(cell.raw, "DUN", ","), ","))
    ELSE IF cell.type \notin NoChildrenTypes THEN LinksOfChildren(cell.children)
    ELSE <<>>

LinksOfChildren(children) ==
    IF children = <<>> THEN <<>>
    ELSE extract_links_from_cell(Head(children)) \o LinksOfChildren(Tail(children))

\* bug variant: only the parenthesis is tested
PassesFilter_NoColon(person) == NotFound(person, "FWRP")

\* person.find(full-width ")") == -1 and person.find(full-width ":") == -1
PassesFilter(person) == NotFound(person, "FWRP") /\ NotFound(person, "FWCOL")

FilterPersons(names) == SelectSeq(names, PassesFilter)

\* profile[k] = v
Put(prof, k, v) == [x \in DOMAIN prof \cup {k} |-> IF x = k THEN v ELSE prof[x]]

\* the string entries of profile once the entry under k holds another value
Without(prof, k) == [x \in DOMAIN prof \ {k} |-> prof[x]]

\* the text of a cell, by the script's own extractor
CellText(v, cell) ==
    IF v = "student" THEN strip(extract_text_from_cell(cell))
    ELSE strip(extract_text_from_node(cell))

\* key and value of a row: the texts of the first and second cell, "" when missing
RowKey(v, row) == IF Len(row.children) > 0 THEN CellText(v, row.children[1]) ELSE <<>>

RowValue(v, row) == IF Len(row.children) > 1 THEN CellText(v, row.children[2]) ELSE <<>>

(* input documents *)

CellEmpty == Cell(<<>>)

CellK == Cell(<<Text(<<"K">>)>>)

CellV == Cell(<<Text(<<" ", "V">>)>>)

\* a value cell holding an image: the alt text is "W", the title "T"
CellW == Cell(<<Image(<<"T">>, <<"W">>)>>)

CellRel == Cell(<<Text(RelKey)>>)

CellRelList == Cell(<<Text(RelListKey)>>)

\* links A, "C(z)" in full-width parentheses and B (inside strong), separated by DUN
CellLinks ==
    Cell(<<Link(<<"A">>), Text(<<"DUN">>), Link(<<"C", "FWLP", "z", "FWRP">>),
           Strong(<<Link(<<" ", "B">>)>>)>>)

\* links "D)" and "E:" in ASCII, "F:" with a full-width colon, and the text "G, H"
CellNotes ==
    Cell(<<Link(<<"D", ")">>), Link(<<"E", ":">>), Link(<<"F", "FWCOL">>),
           Text(<<"G", ",", " ", "H">>)>>)

RowPool ==
    { Row(<<CellRel, CellEmpty>>), Row(<<CellRel, CellV>>),
      Row(<<CellLinks>>), Row(<<CellNotes, CellV>>),
      Row(<<CellK, CellV>>), Row(<<CellK, CellW>>), Row(<<CellK>>),
      Row(<<Cell(<<Text(<<"JBZL">>)>>), CellV>>), Row(<<Cell(<<Text(<<"XSDA">>)>>), CellV>>),
      Row(<<CellEmpty, CellV>>), Row(<<>>), BlankLine,
      Row(<<CellRelList, CellV>>) }

ProfileTable(rows) == Table(<<TableHead(<<CellK, CellV>>), TableBody(rows)>>)

\* a table without body
HeadOnlyTable == Table(<<TableHead(<<CellK, CellV>>)>>)

\* a later table of the document
LaterTable == ProfileTable(<<Row(<<CellK, CellW>>), Row(<<CellRel, CellEmpty>>), Row(<<CellNotes>>)>>)

FirstTables == {ProfileTable(rows) : rows \in SeqUpTo(RowPool, MaxRows)} \cup {HeadOnlyTable}

Documents ==
    {<<>>, <<Paragraph(<<"x">>)>>}
    \cup {pre \o <<t>> \o post : pre \in {<<>>, <<Paragraph(<<"x">>)>>},
                                 t \in FirstTables,
                                 post \in {<<>>, <<LaterTable>>}}

InitProf ==
    /\ pc = "prof_scan"
    /\ ast \in Documents
    /\ variant \in {"student", "school"}
    /\ ni = 1 /\ bi = 0 /\ i = 0
    /\ profile = EmptyMap
    /\ related_persons = <<>>
    /\ profile_list = <<>>
    /\ consumed = {}
    /\ SegIdle
    /\ GroupIdle
    /\ SelIdle
    /\ RecIdle
    /\ QuoteIdle
    /\ TextIdle
    /\ LateIdle

\* the rows of the table body the cursor runs over
Rows == ast[ni].children[bi].children

(* for node in ast *)

ProfScanSkip ==
    /\ pc = "prof_scan"
    /\ ni <= Len(ast)
    /\ ast[ni].type # "table"
    /\ ni' = ni + 1
    /\ UNCHANGED <<pc, ast, variant, bi, i, profile, related_persons, profile_list, consumed>>
    /\ UNCHANGED notProf

ProfScanTable ==
    /\ pc = "prof_scan"
    /\ ni <= Len(ast)
    /\ ast[ni].type = "table"
    /\ pc' = "prof_table"
    /\ bi' = 1
    /\ UNCHANGED <<ast, variant, ni, i, profile, related_persons, profile_list, consumed>>
    /\ UNCHANGED notProf

\* no table in the document
ProfScanEnd ==
    /\ pc = "prof_scan"
    /\ ni > Len(ast)
    /\ pc' = "prof_done"
    /\ UNCHANGED <<ast, variant, ni, bi, i, profile, related_persons, profile_list, consumed>>
    /\ UNCHANGED notProf

(* for child in node.get("children", []) *)

ProfChildSkip ==
    /\ pc = "prof_table"
    /\ bi <= Len(ast[ni].children)
    /\ ast[ni].children[bi].type # "table_body"
    /\ bi' = bi + 1
    /\ UNCHANGED <<pc, ast, variant, ni, i, profile, related_persons, profile_list, consumed>>
    /\ UNCHANGED notProf

ProfChildBody ==
    /\ pc = "prof_table"
    /\ bi <= Len(ast[ni].children)
    /\ ast[ni].children[bi].type = "table_body"
    /\ pc' = "prof_rows"
    /\ i' = 1
    /\ consumed' = {}
    /\ UNCHANGED <<ast, variant, ni, bi, profile, related_persons, profile_list>>
    /\ UNCHANGED notProf

\* bug variant: no break, the scan goes on to the next top-level node
ProfTableEnd_NoBreak ==
    /\ pc = "prof_table"
    /\ bi > Len(ast[ni].children)
    /\ pc' = "prof_scan"
    /\ ni' = ni + 1
    /\ UNCHANGED <<ast, variant, bi, i, profile, related_persons, profile_list, consumed>>
    /\ UNCHANGED notProf

\* the children of the first table are done: break, return profile
ProfTableEnd ==
    /\ pc = "prof_table"
    /\ bi > Len(ast[ni].children)
    /\ pc' = "prof_done"
    /\ UNCHANGED <<ast, variant, ni, bi, i, profile, related_persons, profile_list, consumed>>
    /\ UNCHANGED notProf

(* the rows of a table body *)

AtRow == pc = "prof_rows" /\ i <= Len(Rows)

\* a child of the body that is no table_row (both scripts)
ProfRowNotRow ==
    /\ AtRow
    /\ Rows[i].type # "table_row"
    /\ i' = i + 1
    /\ UNCHANGED <<pc, ast, variant, ni, bi, profile, related_persons, profile_list, consumed>>
    /\ UNCHANGED notProf

\* school: a row with fewer than two cells
SchoolRowShort ==
    /\ AtRow
    /\ variant = "school"
    /\ Rows[i].type = "table_row"
    /\ Len(Rows[i].children) < 2
    /\ i' = i + 1
    /\ UNCHANGED <<pc, ast, variant, ni, bi, profile, related_persons, profile_list, consumed>>
    /\ UNCHANGED notProf

\* a row whose key is empty or a header label (both scripts)
ProfRowSkip ==
    /\ AtRow
    /\ Rows[i].type = "table_row"
    /\ variant = "school" => Len(Rows[i].children) >= 2
    /\ RowKey(variant, Rows[i]) \in {<<>>} \cup HeaderLabels(variant)
    /\ i' = i + 1
    /\ UNCHANGED <<pc, ast, variant, ni, bi, profile, related_persons, profile_list, consumed>>
    /\ UNCHANGED notProf

\* student: the row is handled as a relation row (lines 71-90)
IsRelationRow ==
    /\ variant = "student"
    /\ Rows[i].type = "table_row"
    /\ RowKey(variant, Rows[i]) = RelKey
    /\ i + 1 <= Len(Rows)

\* student: the relation key, the next row holds the persons
StudentRowRelation ==
    /\ AtRow
    /\ IsRelationRow
    /\ LET next_cells == Rows[i + 1].children
           persons == FilterPersons(extract_links_from_cell(next_cells[1]))
       IN  IF next_cells # <<>>
           THEN /\ related_persons' = persons
                /\ profile' = Put(Without(profile, RelListKey), RelKey, join(<<",">>, persons))
                /\ profile_list' = <<persons>>
           ELSE UNCHANGED <<related_persons, profile, profile_list>>
    /\ consumed' = consumed \cup {i + 1}
    /\ i' = i + 2
    /\ UNCHANGED <<pc, ast, variant, ni, bi>>
    /\ UNCHANGED notProf

\* an ordinary field: stored when key and value are both non-empty; a string
\* stored under RelListKey takes the place of the list of line 88
ProfRowOrdinary ==
    /\ AtRow
    /\ Rows[i].type = "table_row"
    /\ variant = "school" => Len(Rows[i].children) >= 2
    /\ RowKey(variant, Rows[i]) # <<>>
    /\ RowKey(variant, Rows[i]) \notin HeaderLabels(variant)
    /\ ~IsRelationRow
    /\ profile' = IF RowValue(variant, Rows[i]) # <<>>
                  THEN Put(profile, RowKey(variant, Rows[i]), RowValue(variant, Rows[i]))
                  ELSE profile
    /\ profile_list' = IF RowValue(variant, Rows[i]) # <<>> /\ RowKey(variant, Rows[i]) = RelListKey
                       THEN <<>>
                       ELSE profile_list
    /\ i' = i + 1
    /\ UNCHANGED <<pc, ast, variant, ni, bi, related_persons, consumed>>
    /\ UNCHANGED notProf

\* the rows of the body are done: on to the next child of the table
ProfRowsEnd ==
    /\ pc = "prof_rows"
    /\ i > Len(Rows)
    /\ pc' = "prof_table"
    /\ bi' = bi + 1
    /\ UNCHANGED <<ast, variant, ni, i, profile, related_persons, profile_list, consumed>>
    /\ UNCHANGED notProf

NextProf ==
    \/ ProfScanSkip \/ ProfScanTable \/ ProfScanEnd
    \/ ProfChildSkip \/ ProfChildBody \/ ProfTableEnd
    \/ ProfRowNotRow \/ SchoolRowShort \/ ProfRowSkip
    \/ StudentRowRelation \/ ProfRowOrdinary \/ ProfRowsEnd

SpecProf == InitProf /\ [][NextProf]_vars

-----------------------------------------------------------------------------
(* Properties of extract_profile_table_from_ast *)

\* position of the first top-level table of the document, 0 when there is none
FirstTablePos ==
    IF \E k \in 1..Len(ast) : ast[k].type = "table"
    THEN CHOOSE k \in 1..Len(ast) : ast[k].type = "table" /\ \A j \in 1..(k - 1) : ast[j].type # "table"
    ELSE 0

\* the body rows of the first table (<<>> without table or without body)
FirstBodyRows ==
    IF FirstTablePos = 0 THEN <<>>
    ELSE LET ch == ast[FirstTablePos].children IN
         IF \E k \in 1..Len(ch) : ch[k].type = "table_body"
         THEN ch[CHOOSE k \in 1..Len(ch) : ch[k].type = "table_body"].children
         ELSE <<>>

\* the texts of the link nodes below a node, in document order
RECURSIVE LinkTexts(_)
RECURSIVE LinkTextsOf(_)
LinkTexts(node) ==
    IF node.type = "link" THEN LinkChildNames(node.children)
    ELSE LinkTextsOf(node.children)

LinkTextsOf(children) ==
    IF children = <<>> THEN <<>>
    ELSE LinkTexts(Head(children)) \o LinkTextsOf(Tail(children))

\* the names a node yields from plain text outside links
RECURSIVE PlainNames(_)
RECURSIVE PlainNamesOf(_)
PlainNames(node) ==
    IF node.type = "link" THEN <<>>
    ELSE IF node.type = "text" THEN extract_links_from_cell(node)
    ELSE PlainNamesOf(node.children)

PlainNamesOf(children) ==
    IF children = <<>> THEN <<>>
    ELSE PlainNames(Head(children)) \o PlainNamesOf(Tail(children))

\* row j of the first table carries the relation key in its first cell
HasRelKey(j) ==
    /\ FirstBodyRows[j].type = "table_row"
    /\ RowKey("student", FirstBodyRows[j]) = RelKey

\* the first cell of row j holds link nodes, and names in link nodes only
LinkRow(j) ==
    /\ FirstBodyRows[j].children # <<>>
    /\ LinkTexts(FirstBodyRows[j].children[1]) # <<>>
    /\ PlainNames(FirstBodyRows[j].children[1]) = <<>>

\* C5 as stated, for a table with one relation row that has a following row:
\* when that following row holds link nodes in its first cell, the returned
\* Profile holds the link texts that pass the filter, in document order, as
\* the list, and exactly those names joined by "," under the relation key.
C5_Original ==
    (pc = "prof_done" /\ variant = "student") =>
        \A j \in 1..(Len(FirstBodyRows) - 1) :
            ( /\ HasRelKey(j)
              /\ \A k \in 1..(Len(FirstBodyRows) - 1) : HasRelKey(k) => k = j
              /\ LinkRow(j + 1) )
            => LET names == FilterPersons(LinkTexts(FirstBodyRows[j + 1].children[1])) IN
               /\ profile_list = <<names>>
               /\ RelKey \in DOMAIN profile
               /\ profile[RelKey] = join(<<",">>, names)

\* C6 as stated: whenever the cursor is at a row whose first-cell text is the
\* relation key, the step advances the cursor by 2 and what it stores under the
\* relation key comes from the first cell of the following row only.
C6_Original ==
    [][ (AtRow /\ variant = "student" /\ Rows[i].type = "table_row"
               /\ RowKey(variant, Rows[i]) = RelKey)
        => /\ i < Len(Rows)
           /\ i' = i + 2
           /\ (profile' # profile =>
                  /\ Rows[i + 1].children # <<>>
                  /\ profile' = Put(profile, RelKey,
                        join(<<",">>, FilterPersons(extract_links_from_cell(Rows[i + 1].children[1]))))) ]_vars

\* C7 as stated: no relation name contains a closing parenthesis or a colon,
\* full-width or ASCII.
C7_Original ==
    \A k \in 1..Len(profile_list) : \A n \in 1..Len(profile_list[k]) :
        \A tok \in {"FWRP", "FWCOL", ")", ":"} : NotFound(profile_list[k][n], tok)

\* row j of the first table qualifies as an ordinary key/value row
Qual(j) ==
    /\ FirstBodyRows[j].type = "table_row"
    /\ j \notin consumed
    /\ RowKey(variant, FirstBodyRows[j]) # <<>>
    /\ RowValue(variant, FirstBodyRows[j]) # <<>>
    /\ RowKey(variant, FirstBodyRows[j]) # <<"JBZL">>
    /\ variant = "student" => RowKey(variant, FirstBodyRows[j]) # <<"XSDA">>

QualRowsOf(k) == {j \in 1..Len(FirstBodyRows) : Qual(j) /\ RowKey(variant, FirstBodyRows[j]) = k}

RowKeys == {RowKey(variant, FirstBodyRows[j]) : j \in 1..Len(FirstBodyRows)}

\* C8 as stated: in both scripts Profile maps a key k other than the relation
\* key to v exactly when the body of the first table has a row, not consumed
\* as a relation value row, with first-cell text k and second-cell text v,
\* both non-empty, k no header label; of several such rows the last one
\* counts.
C8_Original ==
    pc = "prof_done" =>
        \A k \in (DOMAIN profile \cup RowKeys) \ {RelKey} :
            /\ k \in DOMAIN profile <=> QualRowsOf(k) # {}
            /\ k \in DOMAIN profile =>
                  profile[k] = RowValue(variant, FirstBodyRows[
                                  CHOOSE j \in QualRowsOf(k) : \A m \in QualRowsOf(k) : m <= j])

\* C9: only rows of the first top-level table of the document ever add or
\* change an entry of Profile.
C9_FirstTableOnly ==
    [][ (profile' # profile \/ profile_list' # profile_list)
        => (pc = "prof_rows" /\ ni = FirstTablePos) ]_vars

\* a document whose first table yields no entry and that holds a later table
C9_Witness ==
    /\ pc = "prof_done"
    /\ FirstTablePos # 0
    /\ \E k \in (FirstTablePos + 1)..Len(ast) : ast[k].type = "table"
    /\ profile = EmptyMap
    /\ profile_list = <<>>

-----------------------------------------------------------------------------
(* The latest_files loop of the student and school scripts (Revision       *)
(* Selector).  A file name is a token sequence of one-character tokens.    *)

MaxFiles == 3

DigitSeq == <<"0", "1", "2", "3", "4", "5", "6", "7", "8", "9">>

\* a decimal digit outside ASCII: \d and int() take every Unicode decimal digit
WideOne == "FW1"

\* \d
Digits == Range(DigitSeq) \cup {WideOne}

DigitVal(c) ==
    IF c = WideOne THEN 1
    ELSE (CHOOSE n \in 1..Len(DigitSeq) : DigitSeq[n] = c) - 1

\* int(digits)
RECURSIVE ParseInt(_)
ParseInt(ds) ==
    IF ds = <<>> THEN 0
    ELSE 10 * ParseInt(SubSeq(ds, 1, Len(ds) - 1)) + DigitVal(ds[Len(ds)])

Suffix == <<".", "m", "d">>

\* re.compile(r"^(?P<name>.+)_(?P<revid>\d+)\.md$").match(f): "$" matches at
\* the end of f and before a line break that ends f; after the "_" that ends
\* the name only digits and ".md" follow, so it is the last "_" before them;
\* the name is not empty and holds no line break
PatternMatch(f) ==
    LET n == IF f # <<>> /\ f[Len(f)] = "\n" THEN Len(f) - 1 ELSE Len(f)
        stem == SubSeq(f, 1, n - 3)
        us == {u \in 1..Len(stem) : stem[u] = "_"}
        u == CHOOSE x \in us : \A y \in us : y <= x
    IN  IF /\ n >= 3
           /\ SubSeq(f, n - 2, n) = Suffix
           /\ us # {}
           /\ u > 1
           /\ u < Len(stem)
           /\ \A k \in (u + 1)..Len(stem) : stem[k] \in Digits
           /\ \A k \in 1..(u - 1) : stem[k] # "\n"
        THEN [ok |-> TRUE, name |-> SubSeq(stem, 1, u - 1), revid |-> SubSeq(stem, u + 1, Len(stem))]
        ELSE [ok |-> FALSE, name |-> <<>>, revid |-> <<>>]

\* the position of name in the insertion-ordered dict, 0 when absent
EntryOf(latest, name) ==
    IF \E k \in 1..Len(latest) : latest[k].name = name
    THEN CHOOSE k \in 1..Len(latest) : latest[k].name = name
    ELSE 0

\* bug variant: the comparison is turned around
IsNewer_Reversed(latest, name, revid) ==
    IF EntryOf(latest, name) = 0 THEN TRUE ELSE revid < latest[EntryOf(latest, name)].revid

\* name not in latest_files or revid > latest_files[name][0]
IsNewer(latest, name, revid) ==
    IF EntryOf(latest, name) = 0 THEN TRUE ELSE revid > latest[EntryOf(latest, name)].revid

\* latest_files[name] = (revid, md_file): a new key goes last, a present key keeps its place
SetEntry(latest, name, revid, file) ==
    IF EntryOf(latest, name) = 0
    THEN Append(latest, [name |-> name, revid |-> revid, file |-> file])
    ELSE [latest EXCEPT ![EntryOf(latest, name)] = [name |-> name, revid |-> revid, file |-> file]]

\* lines 240-248 as one function of the file list: the dict the loop leaves
RECURSIVE LatestFrom(_, _, _)
LatestFrom(files, k, latest) ==
    IF k > Len(files) THEN latest
    ELSE LET m == PatternMatch(files[k]) IN
         IF m.ok /\ IsNewer(latest, m.name, ParseInt(m.revid))
         THEN LatestFrom(files, k + 1, SetEntry(latest, m.name, ParseInt(m.revid), files[k]))
         ELSE LatestFrom(files, k + 1, latest)

select_latest(files) == LatestFrom(files, 1, <<>>)

FilePool ==
    { <<"a", "_", "1">> \o Suffix, <<"a", "_", "2">> \o Suffix, <<"a", "_", "0", "2">> \o Suffix,
      <<"a", "_", "1", "0">> \o Suffix, <<"b", "_", "3">> \o Suffix,
      <<"a", "_", "b", "_", "1">> \o Suffix,
      <<"a">> \o Suffix, <<"_", "1">> \o Suffix, <<"a", "_", "x">> \o Suffix,
      <<"a", "_", WideOne>> \o Suffix }

\* a directory listing: distinct names, in any order
Listings == {fs \in SeqUpTo(FilePool, MaxFiles) :
                \A j \in 1..Len(fs) : \A k \in 1..Len(fs) : j # k => fs[j] # fs[k]}

InitSel ==
    /\ pc = "sel_loop"
    /\ dir_files \in Listings
    /\ md_files = dir_files
    /\ fj = 1
    /\ latest_files = <<>>
    /\ ast = <<>>
    /\ SegIdle
    /\ GroupIdle
    /\ ProfIdle
    /\ RecIdle
    /\ QuoteIdle
    /\ TextIdle
    /\ LateIdle

\* the name does not match the pattern: continue
SelNoMatch ==
    /\ pc = "sel_loop"
    /\ fj <= Len(md_files)
    /\ ~PatternMatch(md_files[fj]).ok
    /\ fj' = fj + 1
    /\ UNCHANGED <<pc, dir_files, md_files, latest_files>>
    /\ UNCHANGED notSel

\* a first or a greater revision of the name: retained
SelRetain ==
    /\ pc = "sel_loop"
    /\ fj <= Len(md_files)
    /\ PatternMatch(md_files[fj]).ok
    /\ LET m == PatternMatch(md_files[fj]) IN
       /\ IsNewer(latest_files, m.name, ParseInt(m.revid))
       /\ latest_files' = SetEntry(latest_files, m.name, ParseInt(m.revid), md_files[fj])
    /\ fj' = fj + 1
    /\ UNCHANGED <<pc, dir_files, md_files>>
    /\ UNCHANGED notSel

\* a revision that is not greater than the retained one: passed over
SelPass ==
    /\ pc = "sel_loop"
    /\ fj <= Len(md_files)
    /\ PatternMatch(md_files[fj]).ok
    /\ LET m == PatternMatch(md_files[fj]) IN
       ~IsNewer(latest_files, m.name, ParseInt(m.revid))
    /\ fj' = fj + 1
    /\ UNCHANGED <<pc, dir_files, md_files, latest_files>>
    /\ UNCHANGED notSel

\* bug variant: the keys of latest_files are listed in place of the retained files
SelFinish_Keys ==
    /\ pc = "sel_loop"
    /\ fj > Len(md_files)
    /\ md_files' = [k \in 1..Len(latest_files) |-> latest_files[k].name]
    /\ pc' = "sel_done"
    /\ UNCHANGED <<dir_files, fj, latest_files>>
    /\ UNCHANGED notSel

\* line 251: md_files = [item[1] for item in latest_files.values()]
SelFinish ==
    /\ pc = "sel_loop"
    /\ fj > Len(md_files)
    /\ md_files' = [k \in 1..Len(latest_files) |-> latest_files[k].file]
    /\ pc' = "sel_done"
    /\ UNCHANGED <<dir_files, fj, latest_files>>
    /\ UNCHANGED notSel

NextSel == SelNoMatch \/ SelRetain \/ SelPass \/ SelFinish

SpecSel == InitSel /\ [][NextSel]_vars

-----------------------------------------------------------------------------
(* Properties of the latest_files loop *)

\* the listed files that match the pattern and carry the name
FilesOf(name) == {f \in Range(dir_files) : PatternMatch(f).ok /\ PatternMatch(f).name = name}

EntityNames == {PatternMatch(f).name : f \in {g \in Range(dir_files) : PatternMatch(g).ok}}

Revision(f) == ParseInt(PatternMatch(f).revid)

\* C10: for each entity name of a matching file name exactly one file name is
\* retained, one of maximal integer revision among the matching names of that
\* entity; names that do not match contribute nothing, so the files to process
\* are one per entity name.
C10_MaxRevision ==
    pc = "sel_done" =>
        /\ {latest_files[k].name : k \in 1..Len(latest_files)} = EntityNames
        /\ Len(latest_files) = Cardinality(EntityNames)
        /\ \A k \in 1..Len(latest_files) :
              /\ latest_files[k].file \in FilesOf(latest_files[k].name)
              /\ \A f \in FilesOf(latest_files[k].name) : Revision(f) <= Revision(latest_files[k].file)
        /\ Len(md_files) = Len(latest_files)
        /\ \A k \in 1..Len(md_files) : md_files[k] = latest_files[k].file

\* a listing with a name that does not match and an entity with several
\* revisions, the greatest of them neither listed last nor greatest as a string
C10_Witness ==
    /\ pc = "sel_done"
    /\ \E f \in Range(dir_files) : ~PatternMatch(f).ok
    /\ \E j \in 1..Len(dir_files) : \E k \in (j + 1)..Len(dir_files) :
          /\ PatternMatch(dir_files[j]).ok /\ PatternMatch(dir_files[k]).ok
          /\ PatternMatch(dir_files[j]).name = PatternMatch(dir_files[k]).name
          /\ Revision(dir_files[j]) > Revision(dir_files[k])
          /\ Len(PatternMatch(dir_files[j]).revid) > 1
          /\ dir_files[j] \in Range(md_files)


\* C11: when two listed names match the pattern with the same entity name and
\* the same integer revision, the one listed later is the one retained: the
\* earlier of the two is never among the retained files.
C11_Original ==
    pc = "sel_done" =>
        \A j \in 1..Len(dir_files) : \A k \in (j + 1)..Len(dir_files) :
            ( /\ PatternMatch(dir_files[j]).ok /\ PatternMatch(dir_files[k]).ok
              /\ PatternMatch(dir_files[j]).name = PatternMatch(dir_files[k]).name
              /\ Revision(dir_files[j]) = Revision(dir_files[k]) )
            => dir_files[j] \notin Range(md_files)

\* the mapping entity name -> retained file name of a latest_files dict
MappingOf(latest) == {<<latest[k].name, latest[k].file>> : k \in 1..Len(latest)}

\* C12: the retained files are a fixed point of the selection: selecting again
\* among the retained files returns the same mapping entity name -> file name.
C12_Idempotent ==
    pc = "sel_done" => MappingOf(select_latest(md_files)) = MappingOf(latest_files)

\* a selection that dropped an older revision and retained files of two entities
C12_Witness ==
    /\ pc = "sel_done"
    /\ Len(md_files) = 2
    /\ \E f \in Range(dir_files) : PatternMatch(f).ok /\ f \notin Range(md_files)

-----------------------------------------------------------------------------
(* Python dicts that are written out keep insertion order: such a dict is  *)
(* a sequence of [key, val] with distinct keys.                            *)

DictHas(dct, k) == \E j \in 1..Len(dct) : dct[j].key = k

DictPos(dct, k) == CHOOSE j \in 1..Len(dct) : dct[j].key = k

DictGet(dct, k) == dct[DictPos(dct, k)].val

\* dct[k] = v: a present key keeps its place, a new key goes last
DictPut(dct, k, v) ==
    IF DictHas(dct, k) THEN [dct EXCEPT ![DictPos(dct, k)].val = v]
    ELSE Append(dct, [key |-> k, val |-> v])

DictKeys(dct) == {dct[j].key : j \in 1..Len(dct)}

-----------------------------------------------------------------------------
(* extract_sections as a function of the node list: the dict it returns,   *)
(* title -> list of nodes, in insertion order.                             *)

SectionsInit == [sections |-> <<>>, current_section |-> <<>>, current_content |-> <<>>]

\* if current_section and current_section in section_names:
\*     sections[current_section] = list(current_content)
FlushDict(st, names) ==
    IF Qualifies(st.current_section, names)
    THEN DictPut(st.sections, st.current_section, st.current_content)
    ELSE st.sections

RECURSIVE SectionsFrom(_, _, _, _)
SectionsFrom(ns, names, k, st) ==
    IF k > Len(ns) THEN st
    ELSE IF IsHeadingAt(ns[k], 2)
    THEN SectionsFrom(ns, names, k + 1,
                      [sections |-> FlushDict(st, names),
                       current_section |-> strip(extract_text_from_node(ns[k])),
                       current_content |-> <<>>])
    ELSE SectionsFrom(ns, names, k + 1,
                      IF Qualifies(st.current_section, names)
                      THEN [st EXCEPT !.current_content = Append(@, ns[k])]
                      ELSE st)

extract_sections(ns, names) == FlushDict(SectionsFrom(ns, names, 1, SectionsInit), names)

-----------------------------------------------------------------------------
(* flatten_section_content of the three scripts.  The list it returns      *)
(* holds bare strings and sub-blocks {"sub_title", "content"}; an item is  *)
(* [sub, sub_title, content]: sub = FALSE for a bare string, which is then *)
(* the one element of content.                                             *)

TextItem(s) == [sub |-> FALSE, sub_title |-> <<>>, content |-> <<s>>]

SubBlock(t) == [sub |-> TRUE, sub_title |-> t, content |-> <<>>]

\* result and isinstance(result[-1], dict) and "content" in result[-1]
LastIsBlock(result) == result # <<>> /\ result[Len(result)].sub

\* the text goes under the last item when it is a sub-block, else into result
AddText(result, text) ==
    IF LastIsBlock(result)
    THEN [result EXCEPT ![Len(result)].content = Append(@, text)]
    ELSE Append(result, TextItem(text))

\* school: the items of a list are added one by one (extend)
ExtendTexts(result, items) ==
    IF LastIsBlock(result)
    THEN [result EXCEPT ![Len(result)].content = @ \o items]
    ELSE result \o [k \in 1..Len(items) |-> TextItem(items[k])]

\* generate_student_details.py flatten_section_content: one node
StudentFlattenNode(result, node) ==
    IF IsHeadingAt(node, 3)
    THEN Append(result, SubBlock(StrippedText(node)))
    ELSE IF node.type = "paragraph"
    THEN IF StrippedText(node) # <<>> THEN AddText(result, StrippedText(node)) ELSE result
    ELSE IF node.type = "table"
    THEN IF extract_text_from_table(node) # <<>>
         THEN AddText(result, extract_text_from_table(node))
         ELSE result
    ELSE result

RECURSIVE StudentFlattenFrom(_, _, _)
StudentFlattenFrom(ns, k, result) ==
    IF k > Len(ns) THEN result
    ELSE StudentFlattenFrom(ns, k + 1, StudentFlattenNode(result, ns[k]))

student_flatten_section_content(section_nodes) == StudentFlattenFrom(section_nodes, 1, <<>>)

\* generate_school_details.py extract_text_from_node
RECURSIVE school_extract_text_from_node(_)
RECURSIVE SchoolConcatNodeText(_)
school_extract_text_from_node(node) ==
    IF node.type = "text" THEN node.raw
    ELSE IF node.type \in {"strong", "emphasis", "link", "paragraph"}
         THEN SchoolConcatNodeText(node.children)
    ELSE IF node.type = "image"
         THEN IF node.title # <<>> THEN node.title ELSE SchoolConcatNodeText(node.children)
    ELSE IF node.type \notin NoChildrenTypes THEN SchoolConcatNodeText(node.children)
    ELSE <<>>

SchoolConcatNodeText(children) ==
    IF children = <<>> THEN <<>>
    ELSE school_extract_text_from_node(Head(children)) \o SchoolConcatNodeText(Tail(children))

\* the stripped texts of the list_item children (school)
RECURSIVE SchoolItemTexts(_)
SchoolItemTexts(items) ==
    IF items = <<>> THEN <<>>
    ELSE (IF Head(items).type = "list_item"
          THEN <<strip(school_extract_text_from_node(Head(items)))>> ELSE <<>>)
         \o SchoolItemTexts(Tail(items))

\* generate_school_details.py flatten_section_content: one node (the table
\* text is the script's own extract_text_from_table, the same function as
\* the one of utils.py)
SchoolFlattenNode(result, node) ==
    IF IsHeadingAt(node, 3)
    THEN Append(result, SubBlock(strip(school_extract_text_from_node(node))))
    ELSE IF node.type = "paragraph"
    THEN IF strip(school_extract_text_from_node(node)) # <<>>
         THEN AddText(result, strip(school_extract_text_from_node(node)))
         ELSE result
    ELSE IF node.type = "list"
    THEN IF SchoolItemTexts(node.children) # <<>>
         THEN ExtendTexts(result, SchoolItemTexts(node.children))
         ELSE result
    ELSE IF node.type = "table"
    THEN IF extract_text_from_table(node) # <<>>
         THEN AddText(result, extract_text_from_table(node))
         ELSE result
    ELSE result

RECURSIVE SchoolFlattenFrom(_, _, _)
SchoolFlattenFrom(ns, k, result) ==
    IF k > Len(ns) THEN result
    ELSE SchoolFlattenFrom(ns, k + 1, SchoolFlattenNode(result, ns[k]))

school_flatten_section_content(section_nodes) == SchoolFlattenFrom(section_nodes, 1, <<>>)

\* generate_game_info.py flatten_section_content: one node; current_sub is
\* the position in result of the sub-block it refers to, 0 for None
\* bug variant: a heading of another level closes the open sub-block
GameFlattenNode_CloseOnHeading(st, node) ==
    IF IsHeadingAt(node, 4)
    THEN [result |-> Append(st.result, SubBlock(StrippedText(node))),
          current_sub |-> Len(st.result) + 1]
    ELSE IF node.type = "heading" THEN [st EXCEPT !.current_sub = 0]
    ELSE IF node.type \in LeafTypes
    THEN IF LeafText(node) # <<>>
         THEN IF st.current_sub # 0
              THEN [st EXCEPT !.result[st.current_sub].content = Append(@, LeafText(node))]
              ELSE [st EXCEPT !.result = Append(@, TextItem(LeafText(node)))]
         ELSE st
    ELSE st

GameFlattenNode(st, node) ==
    IF IsHeadingAt(node, 4)
    THEN [result |-> Append(st.result, SubBlock(StrippedText(node))),
          current_sub |-> Len(st.result) + 1]
    ELSE IF node.type \in LeafTypes
    THEN IF LeafText(node) # <<>>
         THEN IF st.current_sub # 0
              THEN [st EXCEPT !.result[st.current_sub].content = Append(@, LeafText(node))]
              ELSE [st EXCEPT !.result = Append(@, TextItem(LeafText(node)))]
         ELSE st
    ELSE st

RECURSIVE GameFlattenFrom(_, _, _)
GameFlattenFrom(ns, k, st) ==
    IF k > Len(ns) THEN st
    ELSE GameFlattenFrom(ns, k + 1, GameFlattenNode(st, ns[k]))

flatten_section_content(section_nodes) ==
    GameFlattenFrom(section_nodes, 1, [result |-> <<>>, current_sub |-> 0]).result

-----------------------------------------------------------------------------
(* extract_profile_table_from_ast as a function of the script and the node *)
(* list: [profile, profile_list] as the row steps above leave them, the    *)
(* entry under RelListKey being in profile when it is a string and in      *)
(* profile_list when it is a list.                                         *)

ProfileInit == [profile |-> EmptyMap, profile_list |-> <<>>]

\* the while loop over the rows of one table body, from row k on
RECURSIVE ProfileRowsFrom(_, _, _, _)
ProfileRowsFrom(v, rows, k, st) ==
    IF k > Len(rows) THEN st
    ELSE IF rows[k].type # "table_row" THEN ProfileRowsFrom(v, rows, k + 1, st)
    ELSE IF v = "school" /\ Len(rows[k].children) < 2 THEN ProfileRowsFrom(v, rows, k + 1, st)
    ELSE IF RowKey(v, rows[k]) \in {<<>>} \cup HeaderLabels(v)
    THEN ProfileRowsFrom(v, rows, k + 1, st)
    ELSE IF v = "student" /\ RowKey(v, rows[k]) = RelKey /\ k + 1 <= Len(rows)
    THEN LET next_cells == rows[k + 1].children
             persons == FilterPersons(extract_links_from_cell(next_cells[1]))
         IN  ProfileRowsFrom(v, rows, k + 2,
                             IF next_cells # <<>>
                             THEN [profile |-> Put(Without(st.profile, RelListKey), RelKey,
                                                   join(<<",">>, persons)),
                                   profile_list |-> <<persons>>]
                             ELSE st)
    ELSE ProfileRowsFrom(v, rows, k + 1,
                         IF RowValue(v, rows[k]) # <<>>
                         THEN [profile |-> Put(st.profile, RowKey(v, rows[k]), RowValue(v, rows[k])),
                               profile_list |-> IF RowKey(v, rows[k]) = RelListKey
                                                THEN <<>> ELSE st.profile_list]
                         ELSE st)

\* for child in node.get("children", []): the bodies of the table, in order
RECURSIVE ProfileChildrenFrom(_, _, _, _)
ProfileChildrenFrom(v, children, b, st) ==
    IF b > Len(children) THEN st
    ELSE ProfileChildrenFrom(v, children, b + 1,
                             IF children[b].type = "table_body"
                             THEN ProfileRowsFrom(v, children[b].children, 1, st)
                             ELSE st)

\* the first top-level table is read, then break
extract_profile_table_from_ast(v, ns) ==
    IF \E k \in 1..Len(ns) : ns[k].type = "table"
    THEN LET t == CHOOSE k \in 1..Len(ns) :
                      ns[k].type = "table" /\ \A j \in 1..(k - 1) : ns[j].type # "table"
         IN  ProfileChildrenFrom(v, ns[t].children, 1, ProfileInit)
    ELSE ProfileInit

-----------------------------------------------------------------------------
(* generate_student_details.py: extract_table_as_list and                  *)
(* parse_quotes_section.  Tokens: "CH" is the header label of the occasion *)
(* column (U+573A U+5408), "JSTC" the title of the quotes section          *)
(* (U+89D2 U+8272 U+53F0 U+8BCD).                                          *)

OccasionLabel == <<"CH">>

QuotesTitle == <<"JSTC">>

\* row_data = [extract_text_from_node(cell).strip() for cell in cells]
RowData(row) == [k \in 1..Len(row.children) |-> StrippedText(row.children[k])]

\* not any(row_data) or row_data[0] == occasion label
RowSkipped_BlankOnly(row_data) == \A k \in 1..Len(row_data) : row_data[k] = <<>>

RowSkipped(row_data) ==
    IF \A k \in 1..Len(row_data) : row_data[k] = <<>> THEN TRUE
    ELSE row_data[1] = OccasionLabel

\* the records of the table_row children of one table body
RECURSIVE BodyRecords(_)
BodyRecords(rows) ==
    IF rows = <<>> THEN <<>>
    ELSE (IF /\ Head(rows).type = "table_row"
             /\ ~RowSkipped(RowData(Head(rows)))
             /\ Len(RowData(Head(rows))) >= 2
          THEN <<[occasion |-> RowData(Head(rows))[1], line |-> RowData(Head(rows))[2]]>>
          ELSE <<>>) \o BodyRecords(Tail(rows))

\* for child in table_node.get("children", []): the head only fills headers,
\* which is not used; every table_body child adds its records
RECURSIVE TableRecords(_)
TableRecords(children) ==
    IF children = <<>> THEN <<>>
    ELSE (IF Head(children).type = "table_body" THEN BodyRecords(Head(children).children) ELSE <<>>)
         \o TableRecords(Tail(children))

extract_table_as_list(table_node) == TableRecords(table_node.children)

\* bug variant: the loop starts as if inside the quotes section
QuotesInit_InQuotes ==
    [quotes |-> <<>>, in_quotes |-> TRUE, current_version |-> <<>>, stopped |-> FALSE]

\* the loop state of parse_quotes_section; current_version <<>> is None or ""
QuotesInit == [quotes |-> <<>>, in_quotes |-> FALSE, current_version |-> <<>>, stopped |-> FALSE]

\* one iteration of the for loop
QuotesNode(st, node) ==
    IF IsHeadingAt(node, 2) /\ StrippedText(node) = QuotesTitle
    THEN [st EXCEPT !.in_quotes = TRUE]
    ELSE IF IsHeadingAt(node, 2) /\ st.in_quotes
    THEN [st EXCEPT !.stopped = TRUE]
    ELSE IF ~st.in_quotes THEN st
    ELSE IF IsHeadingAt(node, 3)
    THEN [st EXCEPT !.current_version = StrippedText(node),
                    !.quotes = DictPut(@, StrippedText(node), <<>>)]
    ELSE IF node.type = "table" /\ st.current_version # <<>>
    THEN [st EXCEPT !.quotes = DictPut(@, st.current_version,
                                        DictGet(@, st.current_version) \o extract_table_as_list(node))]
    ELSE st

\* the for loop from position k on; break leaves it
RECURSIVE QuotesFrom(_, _, _)
QuotesFrom(ns, k, st) ==
    IF k > Len(ns) \/ st.stopped THEN st
    ELSE QuotesFrom(ns, k + 1, QuotesNode(st, ns[k]))

parse_quotes_section(ns) == QuotesFrom(ns, 1, QuotesInit).quotes

-----------------------------------------------------------------------------
(* The record a script writes for one document (the body of the for loop   *)
(* of __main__ in the student and school scripts, main in the game         *)
(* script).  Tokens for the titles:                                        *)
(*   "JJ" U+7B80 U+4ECB, "XNSS" U+6821 U+5185 U+8BBE U+65BD,               *)
(*   "XXSS" U+5B66 U+6821 U+8BBE U+65BD, "XS" U+5B66 U+751F,               *)
(*   "STJXS" U+793E U+56E2 U+53CA U+5B66 U+751F, "ST" U+793E U+56E2,       *)
(*   "XSYQTSL" U+5B66 U+751F U+4E0E U+5176 U+4ED6 U+52BF U+529B,           *)
(*   "XSYST" U+5B66 U+751F U+4E0E U+793E U+56E2, "LS" U+5386 U+53F2,       *)
(*   "GK" U+6982 U+51B5, "RWSD" U+4EBA U+7269 U+8BBE U+5B9A,               *)
(*   "RWJL" U+4EBA U+7269 U+7ECF U+5386, "JSXG" U+89D2 U+8272 U+76F8 U+5173,*)
(*   "BJSD" U+80CC U+666F U+8BBE U+5B9A, "SJG" U+4E16 U+754C U+89C2,       *)
(*   "YXXT" U+6E38 U+620F U+7CFB U+7EDF, "CYWL" U+521D U+97F3 U+672A U+6765.*)
(* A value of the record is [kind, v]: kind "list" for a Python list,      *)
(* "dict" for a dict.                                                      *)

MaxRecLen == 4

ListVal(x) == [kind |-> "list", v |-> x]

DictVal(x) == [kind |-> "dict", v |-> x]

BasicKey == <<"JBZL">>

StudentProfileKey == <<"XSDA">>

OtherForces == <<"ST", "DUN", "XSYQTSL">>

\* generate_school_details.py FIELD_MAP, in its order
FIELD_MAP ==
    << [key |-> <<"JJ">>, val |-> <<"JJ">>],
       [key |-> <<"XNSS">>, val |-> <<"XNSS">>],
       [key |-> <<"XXSS">>, val |-> <<"XNSS">>],
       [key |-> <<"XS">>, val |-> <<"XSYST">>],
       [key |-> <<"STJXS">>, val |-> <<"XSYST">>],
       [key |-> OtherForces, val |-> <<"XSYST">>],
       [key |-> <<"LS">>, val |-> <<"LS">>],
       [key |-> <<"GK">>, val |-> <<"GK">>],
       [key |-> BasicKey, val |-> BasicKey] >>

\* FIELD_MAP.get(k, k)
FieldMapGet(k) == IF DictHas(FIELD_MAP, k) THEN DictGet(FIELD_MAP, k) ELSE k

SchoolSectionNames ==
    {<<"JJ">>, <<"XNSS">>, <<"STJXS">>, <<"XS">>, <<"LS">>, <<"GK">>, <<"XXSS">>, OtherForces}

StudentSectionNames == {<<"JJ">>, <<"RWSD">>, <<"RWJL">>, <<"JSXG">>}

WorldTitle == <<"BJSD", "FWLP", "SJG", "FWRP">>

SystemTitle == <<"YXXT">>

GameSectionNames == {WorldTitle, SystemTitle}

\* the student whose record is not written
SkippedStudent == <<"CYWL">>

(* input documents *)

QuoteTable ==
    Table(<<TableHead(<<Cell(<<Text(OccasionLabel)>>), Cell(<<Text(<<"L">>)>>)>>),
            TableBody(<<Row(<<CellK, CellV>>)>>)>>)

ItemList == ListNode(<<ListItem(<<"i">>), ListItem(<<"j", " ">>)>>)

SchoolPool ==
    { Heading(2, <<"JJ">>), Heading(2, <<"XS">>), Heading(2, <<" ", "STJXS">>),
      Heading(2, <<"Z">>), Heading(3, <<"s">>), Paragraph(<<"x">>), ItemList, QuoteTable }

StudentPool ==
    { Heading(2, <<"JJ">>), Heading(2, QuotesTitle), Heading(2, <<"Z">>),
      Heading(3, <<"s">>), Paragraph(<<"x">>), QuoteTable,
      ProfileTable(<<Row(<<CellRel, CellEmpty>>), Row(<<CellLinks>>)>>) }

GamePool ==
    { Heading(2, WorldTitle), Heading(2, SystemTitle), Heading(3, <<"A">>),
      Heading(4, <<"B">>), Paragraph(<<"x">>), ItemList, QuoteTable }

InitRec ==
    /\ pc = "rec_sections"
    /\ rscript \in {"student", "school", "game"}
    /\ ast \in SeqUpTo(IF rscript = "student" THEN StudentPool
                       ELSE IF rscript = "school" THEN SchoolPool ELSE GamePool, MaxRecLen)
    /\ rname \in IF rscript = "student" THEN {<<"a">>, SkippedStudent} ELSE {<<"a">>}
    /\ structured = <<>>
    /\ unified = <<>>
    /\ uidx = 0
    /\ written = <<>>
    /\ SegIdle
    /\ GroupIdle
    /\ ProfIdle
    /\ SelIdle
    /\ QuoteIdle
    /\ TextIdle
    /\ LateIdle

\* structured[sec] = flatten_section_content(nodes), for the sections in order
StudentFlattened(secs) ==
    [k \in 1..Len(secs) |->
        [key |-> secs[k].key, val |-> ListVal(student_flatten_section_content(secs[k].val))]]

SchoolFlattened(secs) ==
    [k \in 1..Len(secs) |->
        [key |-> secs[k].key, val |-> ListVal(school_flatten_section_content(secs[k].val))]]

\* game: the system section goes through parse_section_by_level(nodes, 3)
GameFlattened(secs) ==
    [k \in 1..Len(secs) |->
        [key |-> secs[k].key,
         val |-> IF secs[k].key = SystemTitle
                 THEN ListVal(parse_section_by_level(secs[k].val, TopLevel).result)
                 ELSE ListVal(flatten_section_content(secs[k].val))]]

GameRaises(secs) ==
    \E k \in 1..Len(secs) :
        secs[k].key = SystemTitle /\ parse_section_by_level(secs[k].val, TopLevel).raised

StudentSections ==
    /\ pc = "rec_sections"
    /\ rscript = "student"
    /\ structured' = StudentFlattened(extract_sections(ast, StudentSectionNames))
    /\ pc' = "rec_profile"
    /\ UNCHANGED <<ast, rscript, rname, unified, uidx, written>>
    /\ UNCHANGED notRec

SchoolSections ==
    /\ pc = "rec_sections"
    /\ rscript = "school"
    /\ structured' = SchoolFlattened(extract_sections(ast, SchoolSectionNames))
    /\ pc' = "rec_profile"
    /\ UNCHANGED <<ast, rscript, rname, unified, uidx, written>>
    /\ UNCHANGED notRec

GameSections ==
    /\ pc = "rec_sections"
    /\ rscript = "game"
    /\ LET secs == extract_sections(ast, GameSectionNames) IN
       IF GameRaises(secs)
       THEN /\ pc' = "rec_raised"
            /\ UNCHANGED structured
       ELSE /\ pc' = "rec_dump"
            /\ structured' = GameFlattened(secs)
    /\ UNCHANGED <<ast, rscript, rname, unified, uidx, written>>
    /\ UNCHANGED notRec

\* structured[profile key] = extract_profile_table_from_ast(ast)
StudentProfile ==
    /\ pc = "rec_profile"
    /\ rscript = "student"
    /\ structured' = DictPut(structured, StudentProfileKey,
                             DictVal(extract_profile_table_from_ast("student", ast)))
    /\ pc' = "rec_quotes"
    /\ UNCHANGED <<ast, rscript, rname, unified, uidx, written>>
    /\ UNCHANGED notRec

SchoolProfile ==
    /\ pc = "rec_profile"
    /\ rscript = "school"
    /\ structured' = DictPut(structured, BasicKey,
                             DictVal(extract_profile_table_from_ast("school", ast)))
    /\ pc' = "rec_unify"
    /\ uidx' = 1
    /\ UNCHANGED <<ast, rscript, rname, unified, written>>
    /\ UNCHANGED notRec

\* structured[quotes title] = parse_quotes_section(ast)
StudentQuotes ==
    /\ pc = "rec_quotes"
    /\ structured' = DictPut(structured, QuotesTitle, DictVal(parse_quotes_section(ast)))
    /\ pc' = "rec_dump"
    /\ UNCHANGED <<ast, rscript, rname, unified, uidx, written>>
    /\ UNCHANGED notRec

\* bug variant: the value is assigned even when both are lists
UnifyPut_Assign(uni, std_k, v) == DictPut(uni, std_k, v)

\* one iteration of "for k, v in structured.items()": lists under one
\* standard key are merged, anything else is assigned
UnifyPut(uni, std_k, v) ==
    IF DictHas(uni, std_k) /\ DictGet(uni, std_k).kind = "list" /\ v.kind = "list"
    THEN DictPut(uni, std_k, ListVal(DictGet(uni, std_k).v \o v.v))
    ELSE DictPut(uni, std_k, v)

\* the condition of lines 189-193: both values are lists
UnifyMerges(uni, std_k, v) ==
    DictHas(uni, std_k) /\ DictGet(uni, std_k).kind = "list" /\ v.kind = "list"

\* unified[std_k] = v stores the object v itself, no copy: the value under
\* std_k is the value of the entry of structured that was assigned last.
\* Its position among the first k entries of str, 0 when there is none
RECURSIVE UnifyOwner(_, _, _)
UnifyOwner(str, k, std_k) ==
    IF k = 0 THEN 0
    ELSE LET before == UnifyOwner(str, k - 1, std_k) IN
         IF FieldMapGet(str[k].key) # std_k THEN before
         ELSE IF before # 0 /\ str[before].val.kind = "list" /\ str[k].val.kind = "list"
              THEN before
              ELSE k

\* one iteration of the loop of lines 186-196; extend changes the list in
\* place, which is also the value of an earlier entry of structured
SchoolUnifyStep ==
    /\ pc = "rec_unify"
    /\ uidx <= Len(structured)
    /\ LET std_k == FieldMapGet(structured[uidx].key)
           v == structured[uidx].val
           owner == UnifyOwner(structured, uidx - 1, std_k)
       IN  /\ unified' = UnifyPut(unified, std_k, v)
           /\ structured' = IF UnifyMerges(unified, std_k, v)
                             THEN [structured EXCEPT ![owner].val = ListVal(@.v \o v.v)]
                             ELSE structured
    /\ uidx' = uidx + 1
    /\ UNCHANGED <<pc, ast, rscript, rname, written>>
    /\ UNCHANGED notRec

\* for std_k in FIELD_MAP.values(): a missing standard key gets its default
RECURSIVE DefaultsFrom(_, _)
DefaultsFrom(uni, k) ==
    IF k > Len(FIELD_MAP) THEN uni
    ELSE DefaultsFrom(IF DictHas(uni, FIELD_MAP[k].val) THEN uni
                      ELSE DictPut(uni, FIELD_MAP[k].val,
                                   IF FIELD_MAP[k].val # BasicKey THEN ListVal(<<>>)
                                   ELSE DictVal(ProfileInit)),
                      k + 1)

\* bug variant: the standard keys are not completed
SchoolDump_NoDefaults ==
    /\ pc = "rec_unify"
    /\ uidx > Len(structured)
    /\ unified' = unified
    /\ written' = <<unified'>>
    /\ pc' = "rec_done"
    /\ UNCHANGED <<ast, rscript, rname, structured, uidx>>
    /\ UNCHANGED notRec

\* the loop is over: the defaults are filled in and the record is written
SchoolDump ==
    /\ pc = "rec_unify"
    /\ uidx > Len(structured)
    /\ unified' = DefaultsFrom(unified, 1)
    /\ written' = <<unified'>>
    /\ pc' = "rec_done"
    /\ UNCHANGED <<ast, rscript, rname, structured, uidx>>
    /\ UNCHANGED notRec

\* student: the record of the skipped student is not written
StudentSkip ==
    /\ pc = "rec_dump"
    /\ rscript = "student"
    /\ rname = SkippedStudent
    /\ pc' = "rec_done"
    /\ UNCHANGED <<ast, rscript, rname, structured, unified, uidx, written>>
    /\ UNCHANGED notRec

\* json.dump(structured, f)
StudentDump ==
    /\ pc = "rec_dump"
    /\ rscript = "student"
    /\ rname # SkippedStudent
    /\ written' = <<structured>>
    /\ pc' = "rec_done"
    /\ UNCHANGED <<ast, rscript, rname, structured, unified, uidx>>
    /\ UNCHANGED notRec

GameDump ==
    /\ pc = "rec_dump"
    /\ rscript = "game"
    /\ written' = <<structured>>
    /\ pc' = "rec_done"
    /\ UNCHANGED <<ast, rscript, rname, structured, unified, uidx>>
    /\ UNCHANGED notRec

NextRec ==
    \/ StudentSections \/ SchoolSections \/ GameSections
    \/ StudentProfile \/ SchoolProfile \/ StudentQuotes
    \/ SchoolUnifyStep \/ SchoolDump
    \/ StudentSkip \/ StudentDump \/ GameDump

SpecRec == InitRec /\ [][NextRec]_vars

-----------------------------------------------------------------------------
(* Properties of the written records *)

CanonicalKeys == {FIELD_MAP[k].val : k \in 1..Len(FIELD_MAP)}

\* the document holds a level-2 heading whose title is of interest to the
\* script with section names names
HasSectionTitled(t) == \E p \in 1..Len(ast) : IsHeadingAt(ast[p], 2) /\ StrippedText(ast[p]) = t

\* the school document holds a section standing for the canonical key c
HasSectionFor(c) ==
    \E t \in SchoolSectionNames : FieldMapGet(t) = c /\ HasSectionTitled(t)

HasTable == \E p \in 1..Len(ast) : ast[p].type = "table"

\* C13: the record written for a school document holds every canonical key of
\* FIELD_MAP; a section key holds a list, the empty list when no section of the
\* document stands for it; the profile key holds a map, the empty map when the
\* document has no table.
C13_SchoolCanonicalKeys ==
    (pc = "rec_done" /\ rscript = "school") =>
        /\ written # <<>>
        /\ \A c \in CanonicalKeys :
              /\ DictHas(written[1], c)
              /\ c # BasicKey =>
                    /\ DictGet(written[1], c).kind = "list"
                    /\ ~HasSectionFor(c) => DictGet(written[1], c).v = <<>>
              /\ c = BasicKey =>
                    /\ DictGet(written[1], c).kind = "dict"
                    /\ ~HasTable => DictGet(written[1], c).v = ProfileInit

\* a school document with nodes, but no section of interest and no table
C13_Witness ==
    /\ pc = "rec_done" /\ rscript = "school"
    /\ Len(ast) >= 2
    /\ ~HasTable
    /\ \A c \in CanonicalKeys : ~HasSectionFor(c)
    /\ \E p \in 1..Len(ast) : IsHeadingAt(ast[p], 2)
    /\ Len(written[1]) = Cardinality(CanonicalKeys)

\* C14: the record written for a student document holds every section title of
\* interest and the profile and quotes keys, the record written for the game
\* document holds both game section titles; the value of a section absent
\* from the document is the empty list, of an absent profile or quotes
\* section the empty map.
C14_Original ==
    /\ (pc = "rec_done" /\ rscript = "student" /\ rname # SkippedStudent) =>
          /\ written # <<>>
          /\ \A t \in StudentSectionNames :
                /\ DictHas(written[1], t)
                /\ DictGet(written[1], t).kind = "list"
                /\ ~HasSectionTitled(t) => DictGet(written[1], t).v = <<>>
          /\ DictHas(written[1], StudentProfileKey)
          /\ DictGet(written[1], StudentProfileKey).kind = "dict"
          /\ ~HasTable => DictGet(written[1], StudentProfileKey).v = ProfileInit
          /\ DictHas(written[1], QuotesTitle)
          /\ DictGet(written[1], QuotesTitle).kind = "dict"
          /\ ~HasSectionTitled(QuotesTitle) => DictGet(written[1], QuotesTitle).v = <<>>
    /\ (pc = "rec_done" /\ rscript = "game") =>
          /\ written # <<>>
          /\ \A t \in GameSectionNames :
                /\ DictHas(written[1], t)
                /\ DictGet(written[1], t).kind = "list"
                /\ ~HasSectionTitled(t) => DictGet(written[1], t).v = <<>>

-----------------------------------------------------------------------------
(* parse_quotes_section, one loop iteration per step *)

MaxQuoteLen == 4

MaxQuoteRows == 3

CellOccasion == Cell(<<Text(OccasionLabel)>>)

CellBlank == Cell(<<Text(<<" ">>)>>)

QuoteRowPool ==
    { Row(<<CellK, CellV>>), Row(<<CellEmpty, CellV>>), Row(<<CellK, CellBlank>>),
      Row(<<CellBlank, CellEmpty>>), Row(<<CellOccasion, CellV>>),
      Row(<<Cell(<<Text(<<" ">> \o OccasionLabel)>>), CellV>>),
      Row(<<CellK>>), Row(<<>>), Row(<<CellV, CellK, CellW>>), BlankLine }

QuoteHead == TableHead(<<CellOccasion, Cell(<<Text(<<"L">>)>>)>>)

\* a table with one body; one with the body before the head and a second body
QuoteTables ==
    {Table(<<QuoteHead, TableBody(rows)>>) : rows \in SeqUpTo(QuoteRowPool, MaxQuoteRows)}
    \cup {Table(<<QuoteHead>>),
          Table(<<TableBody(<<Row(<<CellV, CellK>>)>>), QuoteHead,
                  TableBody(<<Row(<<CellOccasion, CellV>>), Row(<<CellK, CellW>>)>>)>>)}

QuoteNodePool ==
    { Heading(2, QuotesTitle), Heading(2, <<"Z">>), Heading(3, <<"v">>), Heading(3, <<"w", " ">>),
      Heading(3, <<" ">>), Paragraph(<<"x">>), QuoteTable,
      Table(<<QuoteHead, TableBody(<<Row(<<CellV, CellK>>), Row(<<CellOccasion, CellV>>)>>)>>) }

QuoteDocuments ==
    SeqUpTo(QuoteNodePool, MaxQuoteLen)
    \cup {<<Heading(2, QuotesTitle), Heading(3, <<"v">>), t>> : t \in QuoteTables}

InitQuote ==
    /\ pc = "quote_loop"
    /\ ast \in QuoteDocuments
    /\ qi = 1
    /\ qstate = QuotesInit
    /\ SegIdle
    /\ GroupIdle
    /\ ProfIdle
    /\ SelIdle
    /\ RecIdle
    /\ TextIdle
    /\ LateIdle

QuoteStep ==
    /\ pc = "quote_loop"
    /\ qi <= Len(ast)
    /\ ~qstate.stopped
    /\ qstate' = QuotesNode(qstate, ast[qi])
    /\ qi' = qi + 1
    /\ UNCHANGED <<pc, ast>>
    /\ UNCHANGED notQuote

\* a level-2 heading: it opens the quotes section, or ends it (break)
QuoteHeading2 == qi <= Len(ast) /\ IsHeadingAt(ast[qi], 2) /\ QuoteStep

\* a node outside the quotes section
QuoteOutside == qi <= Len(ast) /\ ~IsHeadingAt(ast[qi], 2) /\ ~qstate.in_quotes /\ QuoteStep

\* a level-3 heading inside the section names the version
QuoteVersion == qi <= Len(ast) /\ IsHeadingAt(ast[qi], 3) /\ qstate.in_quotes /\ QuoteStep

\* a table inside the section
QuoteTableStep ==
    qi <= Len(ast) /\ ast[qi].type = "table" /\ qstate.in_quotes /\ QuoteStep

\* any other node inside the section
QuoteOther ==
    /\ qi <= Len(ast) /\ qstate.in_quotes
    /\ ast[qi].type # "table" /\ ~IsHeadingAt(ast[qi], 2) /\ ~IsHeadingAt(ast[qi], 3)
    /\ QuoteStep

QuoteReturn ==
    /\ pc = "quote_loop"
    /\ qi > Len(ast) \/ qstate.stopped
    /\ pc' = "quote_done"
    /\ UNCHANGED <<ast, qi, qstate>>
    /\ UNCHANGED notQuote

NextQuote ==
    QuoteHeading2 \/ QuoteOutside \/ QuoteVersion \/ QuoteTableStep \/ QuoteOther \/ QuoteReturn

SpecQuote == InitQuote /\ [][NextQuote]_vars

-----------------------------------------------------------------------------
(* Properties of extract_table_as_list *)

\* the children of the table_body children of a table, in document order
RECURSIVE BodyChildren(_)
BodyChildren(children) ==
    IF children = <<>> THEN <<>>
    ELSE (IF Head(children).type = "table_body" THEN Head(children).children ELSE <<>>)
         \o BodyChildren(Tail(children))

\* a body row that yields a record: a table_row with at least two cells, some
\* cell text not empty, the first cell text not the header label
YieldsRecord(row) ==
    /\ row.type = "table_row"
    /\ Len(row.children) >= 2
    /\ \E k \in 1..Len(row.children) : StrippedText(row.children[k]) # <<>>
    /\ StrippedText(row.children[1]) # OccasionLabel

ExpectedRecords(table_node) ==
    LET rows == SelectSeq(BodyChildren(table_node.children), YieldsRecord)
    IN  [k \in 1..Len(rows) |-> [occasion |-> StrippedText(rows[k].children[1]),
                                 line |-> StrippedText(rows[k].children[2])]]

\* C15: the records a table adds to the quotes of the open version are, in
\* document order, one {occasion, line} record of the first two cell texts per
\* body row that has at least two cells, is not entirely empty and does not
\* carry the header label in its first cell; blank rows, header-label rows,
\* rows of fewer than two cells and head rows add nothing.
C15_QuoteRecords ==
    [][(QuoteTableStep /\ qstate.current_version # <<>>) =>
          DictGet(qstate'.quotes, qstate.current_version)
              = DictGet(qstate.quotes, qstate.current_version) \o ExpectedRecords(ast[qi])]_vars

\* a table was read whose body held a blank row, a header-label row, a short
\* row and a row that gave a record
C15_Witness ==
    /\ pc = "quote_done"
    /\ Len(ast) = 3 /\ ast[3].type = "table"
    /\ LET rows == BodyChildren(ast[3].children) IN
       /\ \E k \in 1..Len(rows) : rows[k].type = "table_row" /\ Len(rows[k].children) >= 2
                                  /\ \A c \in 1..Len(rows[k].children) :
                                        StrippedText(rows[k].children[c]) = <<>>
       /\ \E k \in 1..Len(rows) : rows[k].type = "table_row" /\ Len(rows[k].children) >= 2
                                  /\ StrippedText(rows[k].children[1]) = OccasionLabel
       /\ \E k \in 1..Len(rows) : YieldsRecord(rows[k])
    /\ Len(qstate.quotes) = 1 /\ Len(qstate.quotes[1].val) = 1

-----------------------------------------------------------------------------
(* extract_text_from_node of utils.py and of generate_school_details.py,   *)
(* applied to one node.                                                    *)

MaxChildren == 2

CodeSpan(s) == MkNode("codespan", 0, s, <<>>, <<>>)

\* nodes without children
TextLeaves ==
    { Text(<<"a">>), Text(<<" ", "b">>), Text(<<>>), CodeSpan(<<"c">>), BlankLine }

\* the types the functions name, and some they do not
NamedTypes == {"strong", "emphasis", "link", "paragraph"}

OtherTypes == {"heading", "list_item", "table_cell", "block_quote"}

\* a node of type t over the children ch; an image carries the title ti
Inner(t, ti, ch) == MkNode(t, 0, <<>>, ti, ch)

InnerNodes(S) ==
    {Inner(t, <<>>, ch) : t \in NamedTypes \cup OtherTypes, ch \in SeqUpTo(S, MaxChildren)}
    \cup {Inner("image", ti, ch) : ti \in {<<>>, <<"T">>}, ch \in SeqUpTo(S, MaxChildren)}

\* nodes over a few inner nodes, for the recursion
NestedSample ==
    { Text(<<"a">>), Inner("strong", <<>>, <<Text(<<"s">>), Text(<<" ">>)>>),
      Inner("image", <<"T">>, <<Text(<<"alt">>)>>), Inner("image", <<>>, <<Text(<<"alt">>)>>),
      Inner("link", <<>>, <<>>) }

TextInputs == TextLeaves \cup InnerNodes(TextLeaves) \cup InnerNodes(NestedSample)

InitText ==
    /\ pc = "text_utils"
    /\ tnode \in TextInputs
    /\ text_utils = <<>>
    /\ text_school = <<>>
    /\ ast = <<>>
    /\ SegIdle
    /\ GroupIdle
    /\ ProfIdle
    /\ SelIdle
    /\ RecIdle
    /\ QuoteIdle
    /\ LateIdle

\* utils.extract_text_from_node(node)
TextUtils ==
    /\ pc = "text_utils"
    /\ text_utils' = extract_text_from_node(tnode)
    /\ pc' = "text_school"
    /\ UNCHANGED <<ast, tnode, text_school>>
    /\ UNCHANGED notText

\* generate_school_details.extract_text_from_node(node)
TextSchool ==
    /\ pc = "text_school"
    /\ text_school' = school_extract_text_from_node(tnode)
    /\ pc' = "text_done"
    /\ UNCHANGED <<ast, tnode, text_utils>>
    /\ UNCHANGED notText

NextText == TextUtils \/ TextSchool

SpecText == InitText /\ [][NextText]_vars

-----------------------------------------------------------------------------
(* Properties of extract_text_from_node *)

RECURSIVE ConcatAll(_)
ConcatAll(strs) == IF strs = <<>> THEN <<>> ELSE Head(strs) \o ConcatAll(Tail(strs))

\* C16: the text of a node is a string; of a text node it is the raw content;
\* of an image with a non-empty title it is the title; of any other node with
\* children it is the concatenation, in order, of the texts of the children;
\* of any other node without children it is the empty string.  Both the
\* function of utils.py and the one of the school script.
C16_Flatten ==
    /\ pc \in {"text_school", "text_done"} =>
          /\ text_utils \in Seq(STRING)
          /\ text_utils =
                IF tnode.type = "text" THEN tnode.raw
                ELSE IF tnode.type = "image" /\ tnode.title # <<>> THEN tnode.title
                ELSE IF tnode.type \notin NoChildrenTypes
                THEN ConcatAll([k \in 1..Len(tnode.children) |->
                                   extract_text_from_node(tnode.children[k])])
                ELSE <<>>
    /\ pc = "text_done" =>
          /\ text_school \in Seq(STRING)
          /\ text_school =
                IF tnode.type = "text" THEN tnode.raw
                ELSE IF tnode.type = "image" /\ tnode.title # <<>> THEN tnode.title
                ELSE IF tnode.type \notin NoChildrenTypes
                THEN ConcatAll([k \in 1..Len(tnode.children) |->
                                   school_extract_text_from_node(tnode.children[k])])
                ELSE <<>>

\* a node of a type the functions do not name, over an image with a title and
\* a text node: the title stands for the image
C16_Witness ==
    /\ pc = "text_done"
    /\ tnode.type \in OtherTypes
    /\ Len(tnode.children) = 2
    /\ tnode.children[1].type = "image" /\ tnode.children[1].title # <<>>
    /\ tnode.children[2].type = "text"
    /\ text_utils = tnode.children[1].title \o tnode.children[2].raw
    /\ text_school = text_utils

-----------------------------------------------------------------------------
(* Further properties of parse_section_by_level *)

\* the slice from position p up to, excluding, the next node after p that is
\* a heading with level <= lvl
RunFrom(ns, p, lvl) == SubSeq(ns, p, RunStop(ns, p + 1, lvl) - 1)

\* C17: when the loop is at a heading deeper than the level while a Section
\* is open, the Sections added to the open Section's subsections are those of
\* parse_section_by_level(run, level + 1), run being the slice from that
\* position up to the next heading with level <= level; also when an equal
\* node occurs earlier in nodes.
C17_Original ==
    [][(GroupOtherHeading /\ nodes[gi].level > level /\ gstate.current # <<>>) =>
          gstate'.current[1].subsections
              = gstate.current[1].subsections
                \o parse_section_by_level(RunFrom(nodes, gi, level), level + 1).result]_vars

\* the positions of the headings at exactly lvl, in order
LevelHeadings(ns, lvl) ==
    SelectSeq([k \in 1..Len(ns) |-> k], LAMBDA k : IsHeadingAt(ns[k], lvl))

\* C18: a returned Section holds content and subsections only of the nodes
\* between its heading and the next heading with level <= its level: it is the
\* Section of that slice taken alone; and a Section pushed to the result list
\* is not modified afterwards.
C18_Original ==
    /\ [](pc = "group_done" =>
             LET hs == LevelHeadings(nodes, level) IN
             /\ Len(gstate.result) = Len(hs)
             /\ \A j \in 1..Len(hs) :
                   gstate.result[j]
                       = parse_section_by_level(RunFrom(nodes, hs[j], level), level).result[1])
    /\ [][\A k \in 1..Len(gstate.result) :
             Len(gstate'.result) >= k /\ gstate'.result[k] = gstate.result[k]]_vars

\* C19: the returned list holds one Section per heading at exactly the level,
\* in document order, titled with the heading's stripped text; a heading
\* directly followed by the next such heading or by the end of input gives a
\* Section with empty content (and no subsections); the Section open at the
\* end of input is included.
C19_TopLevelGrouping ==
    pc = "group_done" =>
        LET hs == LevelHeadings(nodes, level) IN
        /\ Len(gstate.result) = Len(hs)
        /\ \A j \in 1..Len(hs) :
              /\ gstate.result[j].title = StrippedText(nodes[hs[j]])
              /\ (hs[j] = Len(nodes) \/ IsHeadingAt(nodes[hs[j] + 1], level)) =>
                    /\ gstate.result[j].content = <<>>
                    /\ gstate.result[j].subsections = <<>>

\* orphan nodes, then a heading directly followed by the next one, which is
\* open with content at the end of input
C19_Witness ==
    /\ pc = "group_done"
    /\ Len(nodes) = 4
    /\ ~IsHeadingAt(nodes[1], level)
    /\ IsHeadingAt(nodes[2], level) /\ IsHeadingAt(nodes[3], level)
    /\ Len(gstate.result) = 2
    /\ gstate.result[1].content = <<>>
    /\ gstate.result[2].content # <<>>

\* C20: nodes before the first heading at exactly the level contribute
\* nothing: when only leaf nodes and deeper headings precede that heading,
\* the result is the result for the nodes from that heading on.
C20_Original ==
    pc = "group_done" =>
        \A q \in 1..Len(nodes) :
            ( /\ IsHeadingAt(nodes[q], level)
              /\ \A j \in 1..(q - 1) :
                    \/ nodes[j].type \in LeafTypes
                    \/ nodes[j].type = "heading" /\ nodes[j].level > level )
            => gstate.result = parse_section_by_level(SubSeq(nodes, q, Len(nodes)), level).result

-----------------------------------------------------------------------------
(* flatten_section_content (Content Flattener) of the three scripts, one   *)
(* action per loop iteration.  The game script groups under level-4        *)
(* headings, the student and the school script under level-3 headings.     *)

MaxFlatLen == 4

\* the heading level that opens a sub-block
MinorLevel(script) == IF script = "game" THEN 4 ELSE 3

\* the node types the elif branches of the script handle
HandledTypes(script) ==
    IF script = "student" THEN {"paragraph", "table"} ELSE LeafTypes

FlatPool ==
    { Heading(3, <<"A">>), Heading(4, <<"B">>), Heading(5, <<"C">>),
      Paragraph(<<"x">>), Paragraph(<<" ">>), ItemList, QuoteTable }

InitFlat ==
    /\ pc = "flat_loop"
    /\ fscript \in {"game", "student", "school"}
    /\ fnodes \in SeqUpTo(FlatPool, MaxFlatLen)
    /\ fi = 1
    /\ fstate = [result |-> <<>>, current_sub |-> 0]
    /\ ast = <<>>
    /\ SegIdle
    /\ GroupIdle
    /\ ProfIdle
    /\ SelIdle
    /\ RecIdle
    /\ QuoteIdle
    /\ TextIdle
    /\ DocIdle
    /\ PageIdle

\* one iteration of the for loop of the script
FlatNode(script, st, node) ==
    IF script = "game" THEN GameFlattenNode(st, node)
    ELSE IF script = "student"
    THEN [st EXCEPT !.result = StudentFlattenNode(@, node)]
    ELSE [st EXCEPT !.result = SchoolFlattenNode(@, node)]

FlatStep ==
    /\ pc = "flat_loop"
    /\ fi <= Len(fnodes)
    /\ fstate' = FlatNode(fscript, fstate, fnodes[fi])
    /\ fi' = fi + 1
    /\ UNCHANGED <<pc, fscript, fnodes>>
    /\ UNCHANGED notFlat

\* a heading at the minor level opens a sub-block
FlatSubBlock ==
    fi <= Len(fnodes) /\ IsHeadingAt(fnodes[fi], MinorLevel(fscript)) /\ FlatStep

\* a node of a type the script turns into text
FlatLeaf ==
    fi <= Len(fnodes) /\ fnodes[fi].type \in HandledTypes(fscript) /\ FlatStep

\* any other node (a heading of another level, a type the script has no branch for)
FlatIgnored ==
    /\ fi <= Len(fnodes)
    /\ ~IsHeadingAt(fnodes[fi], MinorLevel(fscript))
    /\ fnodes[fi].type \notin HandledTypes(fscript)
    /\ FlatStep

FlatReturn ==
    /\ pc = "flat_loop"
    /\ fi > Len(fnodes)
    /\ pc' = "flat_done"
    /\ UNCHANGED <<fscript, fnodes, fi, fstate>>
    /\ UNCHANGED notFlat

NextFlat == FlatSubBlock \/ FlatLeaf \/ FlatIgnored \/ FlatReturn

SpecFlat == InitFlat /\ [][NextFlat]_vars

-----------------------------------------------------------------------------
(* Properties of flatten_section_content *)

\* the positions of the headings of ns at the minor level, in order
MinorPositions(ns, minor) ==
    SelectSeq([k \in 1..Len(ns) |-> k], LAMBDA k : IsHeadingAt(ns[k], minor))

\* what the Content Flattener is to return for ns: the text forms of the
\* leaves before the first minor heading as bare strings, then one SubBlock
\* per minor heading holding the text forms of the leaves up to the next
\* minor heading
ExpectedFlat(ns, minor) ==
    LET ms == MinorPositions(ns, minor)
        bare == LeafTextsBetween(ns, 0, IF ms = <<>> THEN Len(ns) + 1 ELSE ms[1])
    IN  [k \in 1..Len(bare) |-> TextItem(bare[k])]
        \o [j \in 1..Len(ms) |->
               [sub |-> TRUE,
                sub_title |-> StrippedText(ns[ms[j]]),
                content |-> LeafTextsBetween(ns, ms[j],
                                IF j < Len(ms) THEN ms[j + 1] ELSE Len(ns) + 1)]]

\* C21: in the game script, after every iteration of the loop the result is,
\* for the nodes read so far, one SubBlock per level-4 heading, each holding
\* the non-empty text forms of the paragraphs, lists and tables up to the
\* next level-4 heading, preceded by the text forms met before the first
\* level-4 heading as bare strings; headings of other levels change nothing.
C21_AppendTarget ==
    (fscript = "game" /\ pc \in {"flat_loop", "flat_done"})
        => /\ fstate.result = ExpectedFlat(SubSeq(fnodes, 1, fi - 1), 4)
           /\ fstate.current_sub =
                  IF MinorPositions(SubSeq(fnodes, 1, fi - 1), 4) = <<>> THEN 0
                  ELSE Len(fstate.result)

\* C21 witness: the game script has returned a bare string followed by a
\* SubBlock whose content holds a leaf that came after a heading of another
\* level inside the SubBlock.
C21_Witness ==
    /\ fscript = "game" /\ pc = "flat_done"
    /\ Len(fstate.result) = 2
    /\ ~fstate.result[1].sub
    /\ fstate.result[2].sub /\ fstate.result[2].content # <<>>
    /\ \E a, b, c \in 1..Len(fnodes) :
          /\ a < b /\ b < c
          /\ IsHeadingAt(fnodes[a], 4)
          /\ fnodes[b].type = "heading" /\ fnodes[b].level # 4
          /\ fnodes[c].type \in LeafTypes /\ LeafText(fnodes[c]) # <<>>

\* C25 as stated: the student and the school script return what the game
\* script's algorithm returns with level-3 sub-blocks: every paragraph, list
\* and table with a non-empty text form gives one entry, a list the texts of
\* its items joined by newline.
C25_Original ==
    (pc = "flat_done" /\ fscript \in {"student", "school"})
        => fstate.result = ExpectedFlat(fnodes, 3)

-----------------------------------------------------------------------------
(* Properties of the unify step of the school script *)

\* the titles of interest that FIELD_MAP maps to another key
Synonyms == {t \in SchoolSectionNames : FieldMapGet(t) # t}

\* the position of the first and of the last level-2 heading titled t
FirstTitled(t) ==
    CHOOSE p \in 1..Len(ast) :
        /\ IsHeadingAt(ast[p], 2) /\ StrippedText(ast[p]) = t
        /\ \A q \in 1..(p - 1) : ~(IsHeadingAt(ast[q], 2) /\ StrippedText(ast[q]) = t)

LastTitled(t) ==
    CHOOSE p \in 1..Len(ast) :
        /\ IsHeadingAt(ast[p], 2) /\ StrippedText(ast[p]) = t
        /\ \A q \in (p + 1)..Len(ast) : ~(IsHeadingAt(ast[q], 2) /\ StrippedText(ast[q]) = t)

\* the nodes of the section the segmenter keeps for title t: those between
\* the last heading titled t and the next level-2 heading
SectionNodes(t) ==
    LET h == LastTitled(t)
        e == IF \E q \in (h + 1)..Len(ast) : IsHeadingAt(ast[q], 2)
             THEN CHOOSE q \in (h + 1)..Len(ast) :
                      IsHeadingAt(ast[q], 2) /\ \A r \in (h + 1)..(q - 1) : ~IsHeadingAt(ast[r], 2)
             ELSE Len(ast) + 1
    IN  SubSeq(ast, h + 1, e - 1)

\* the titles of the document that stand for the canonical key c
TitlesFor(c) == {t \in SchoolSectionNames : FieldMapGet(t) = c /\ HasSectionTitled(t)}

\* the flattened contents of the sections titled in S, in the order in which
\* the titles first occur in the document
RECURSIVE FlattenedOf(_)
FlattenedOf(S) ==
    IF S = {} THEN <<>>
    ELSE LET t == CHOOSE t \in S : \A u \in S : FirstTitled(t) <= FirstTitled(u)
         IN  school_flatten_section_content(SectionNodes(t)) \o FlattenedOf(S \ {t})

\* C22: the record written for a school document has no synonym among its
\* keys, and the list under every canonical section key holds the flattened
\* content of every section of the document whose title stands for that key,
\* one after the other.
C22_SynonymCollapse ==
    (pc = "rec_done" /\ rscript = "school") =>
        /\ written # <<>>
        /\ DictKeys(written[1]) \cap Synonyms = {}
        /\ \A c \in CanonicalKeys \ {BasicKey} :
              /\ DictHas(written[1], c)
              /\ DictGet(written[1], c).v = FlattenedOf(TitlesFor(c))

\* C22 witness: a written school record whose document holds two sections
\* with synonymous titles, both with content.
C22_Witness ==
    /\ pc = "rec_done" /\ rscript = "school" /\ written # <<>>
    /\ \E c \in CanonicalKeys \ {BasicKey} :
          \E t, u \in TitlesFor(c) :
              /\ t # u
              /\ school_flatten_section_content(SectionNodes(t)) # <<>>
              /\ school_flatten_section_content(SectionNodes(u)) # <<>>

-----------------------------------------------------------------------------
(* The components applied to one document, each on its own: the calls are  *)
(* independent of each other (pure functions of the node list), so they    *)
(* are taken in any order.  outputs holds, per component, <<>> before the  *)
(* call and <<value>> after it.  The grouper and the flattener are called  *)
(* by main() of the game script on the content of a section of the         *)
(* document, and only when extract_sections returned that section; the     *)
(* content is recorded with the value.                                     *)

MaxDocLen == 3

\* the nodes of the student documents and the two level-2 headings of the
\* game script
DocPool == StudentPool \cup {Heading(2, WorldTitle), Heading(2, SystemTitle)}

\* sections = extract_sections(ast, section_names) of the game script
DocGameSections == extract_sections(ast, GameSectionNames)

NoOutputs ==
    [sections |-> <<>>, profile |-> <<>>, quotes |-> <<>>, grouped |-> <<>>, flattened |-> <<>>]

InitDoc ==
    /\ pc = "doc"
    /\ ast \in SeqUpTo(DocPool, MaxDocLen)
    /\ outputs = NoOutputs
    /\ SegIdle
    /\ GroupIdle
    /\ ProfIdle
    /\ SelIdle
    /\ RecIdle
    /\ QuoteIdle
    /\ TextIdle
    /\ FlatIdle
    /\ PageIdle

\* sections = extract_sections(ast, section_names) of the student script
DocSegment ==
    /\ pc = "doc"
    /\ outputs.sections = <<>>
    /\ outputs' = [outputs EXCEPT !.sections = <<extract_sections(ast, StudentSectionNames)>>]
    /\ UNCHANGED <<pc, ast>>
    /\ UNCHANGED notDoc

\* profile = extract_profile_table_from_ast(ast) of the student or the school script
DocProfile ==
    /\ pc = "doc"
    /\ outputs.profile = <<>>
    /\ \E v \in {"student", "school"} :
          outputs' = [outputs EXCEPT !.profile =
                         <<[script |-> v, value |-> extract_profile_table_from_ast(v, ast)]>>]
    /\ UNCHANGED <<pc, ast>>
    /\ UNCHANGED notDoc

\* quotes = parse_quotes_section(ast)
DocQuotes ==
    /\ pc = "doc"
    /\ outputs.quotes = <<>>
    /\ outputs' = [outputs EXCEPT !.quotes = <<parse_quotes_section(ast)>>]
    /\ UNCHANGED <<pc, ast>>
    /\ UNCHANGED notDoc

\* structured[sec] = parse_section_by_level(nodes, 3) for the system section
DocGroup ==
    /\ pc = "doc"
    /\ outputs.grouped = <<>>
    /\ DictHas(DocGameSections, SystemTitle)
    /\ LET section_nodes == DictGet(DocGameSections, SystemTitle)
       IN  outputs' = [outputs EXCEPT !.grouped =
                          <<[input |-> section_nodes,
                             value |-> parse_section_by_level(section_nodes, TopLevel)]>>]
    /\ UNCHANGED <<pc, ast>>
    /\ UNCHANGED notDoc

\* structured[sec] = flatten_section_content(nodes) for the other section
DocFlatten ==
    /\ pc = "doc"
    /\ outputs.flattened = <<>>
    /\ DictHas(DocGameSections, WorldTitle)
    /\ LET section_nodes == DictGet(DocGameSections, WorldTitle)
       IN  outputs' = [outputs EXCEPT !.flattened =
                          <<[input |-> section_nodes,
                             value |-> flatten_section_content(section_nodes)]>>]
    /\ UNCHANGED <<pc, ast>>
    /\ UNCHANGED notDoc

NextDoc == DocSegment \/ DocProfile \/ DocQuotes \/ DocGroup \/ DocFlatten

SpecDoc == InitDoc /\ [][NextDoc]_vars

-----------------------------------------------------------------------------
(* Properties of the components on a document without structure *)

\* the document has no level-2 heading whose title is of interest, no table
\* and no quotes section
AbsentStructure ==
    /\ \A p \in 1..Len(ast) :
          IsHeadingAt(ast[p], 2) =>
              StrippedText(ast[p]) \notin StudentSectionNames \cup {QuotesTitle}
    /\ \A p \in 1..Len(ast) : ast[p].type # "table"

\* C23: on a document without a section of interest, a table or a quotes
\* section, the segmenter returns the empty map, the profile extractor the
\* empty Profile and the quote parser the empty map; the grouper and the
\* flattener return the empty list for the empty node list; no call raises.
C23_AbsentStructure ==
    /\ (AbsentStructure /\ outputs.sections # <<>>) => outputs.sections[1] = <<>>
    /\ (AbsentStructure /\ outputs.profile # <<>>) => outputs.profile[1].value = ProfileInit
    /\ (AbsentStructure /\ outputs.quotes # <<>>) => outputs.quotes[1] = <<>>
    /\ (outputs.grouped # <<>> /\ outputs.grouped[1].input = <<>>) =>
           outputs.grouped[1].value = [raised |-> FALSE, result |-> <<>>]
    /\ (outputs.flattened # <<>> /\ outputs.flattened[1].input = <<>>) =>
           outputs.flattened[1].value = <<>>

\* C23 witness: a document of three nodes without structure, with a level-2
\* and a level-3 heading, on which all five components have been called, the
\* grouper and the flattener on the empty content of a game section.
C23_Witness ==
    /\ pc = "doc" /\ AbsentStructure /\ Len(ast) = 3
    /\ \E p \in 1..Len(ast) : IsHeadingAt(ast[p], 2)
    /\ \E p \in 1..Len(ast) : IsHeadingAt(ast[p], 3)
    /\ outputs.sections # <<>> /\ outputs.profile # <<>> /\ outputs.quotes # <<>>
    /\ outputs.grouped # <<>> /\ outputs.grouped[1].input = <<>>
    /\ outputs.flattened # <<>> /\ outputs.flattened[1].input = <<>>

-----------------------------------------------------------------------------
(* Malformed nodes in parse_section_by_level *)

\* ns without the headings that carry no level
WithLevel(ns) == SelectSeq(ns, LAMBDA n : ~(n.type = "heading" /\ n.level = 0))

\* C24 as stated, for the grouper: a heading without a level attribute is
\* skipped; the call does not raise and returns what it returns for the node
\* list without such headings.
C24_Original ==
    /\ pc # "group_raised"
    /\ pc = "group_done" => gstate.result = parse_section_by_level(WithLevel(nodes), level).result

-----------------------------------------------------------------------------
(* The number of Sections in the tree parse_section_by_level returns *)

\* the Section records of a Section list, at all nesting depths
RECURSIVE CountSections(_)
CountSections(secs) ==
    IF secs = <<>> THEN 0
    ELSE 1 + CountSections(Head(secs).subsections) + CountSections(Tail(secs))

\* C26 as stated: the tree returned for nodes holds at most one Section per
\* heading node of nodes, for every pattern of heading levels.
C26_Original ==
    pc = "group_done" => CountSections(gstate.result) <= Len(HeadingPositions(nodes))

-----------------------------------------------------------------------------
(* The two relation entries of the student Profile *)

\* the value under the relation list key as the sequence join iterates over:
\* the names of the list, or the characters of a string stored there
RelListElems ==
    IF profile_list # <<>> THEN profile_list[1]
    ELSE [k \in 1..Len(profile[RelListKey]) |-> <<profile[RelListKey][k]>>]

\* C27 as stated: in the Profile the student script returns, the relation key
\* and the relation list key are both present or both absent, and when
\* present the string under the relation key is the elements of the value
\* under the relation list key joined by ",".
C27_Original ==
    (pc = "prof_done" /\ variant = "student") =>
        /\ RelKey \in DOMAIN profile <=> (profile_list # <<>> \/ RelListKey \in DOMAIN profile)
        /\ RelKey \in DOMAIN profile => profile[RelKey] = join(<<",">>, RelListElems)

-----------------------------------------------------------------------------
(* The quote collection of parse_quotes_section as a whole *)

\* the quotes section of the document: the positions after the first
\* level-2 heading titled with the quotes title, up to the next level-2
\* heading; the empty set when there is no such heading
QuotesSection ==
    IF \E p \in 1..Len(ast) : IsHeadingAt(ast[p], 2) /\ StrippedText(ast[p]) = QuotesTitle
    THEN LET s == CHOOSE p \in 1..Len(ast) :
                      /\ IsHeadingAt(ast[p], 2) /\ StrippedText(ast[p]) = QuotesTitle
                      /\ \A q \in 1..(p - 1) :
                            ~(IsHeadingAt(ast[q], 2) /\ StrippedText(ast[q]) = QuotesTitle)
         IN  {p \in (s + 1)..Len(ast) : \A q \in (s + 1)..p : ~IsHeadingAt(ast[q], 2)}
    ELSE {}

\* the titles of the level-3 headings of the quotes section
VersionTitles == {StrippedText(ast[p]) : p \in {q \in QuotesSection : IsHeadingAt(ast[q], 3)}}

\* the table at position t lies under a level-3 heading titled v
TableUnder(t, v) ==
    /\ t \in QuotesSection
    /\ ast[t].type = "table"
    /\ \E h \in QuotesSection :
          /\ h < t /\ IsHeadingAt(ast[h], 3) /\ StrippedText(ast[h]) = v
          /\ \A q \in (h + 1)..(t - 1) : ~IsHeadingAt(ast[q], 3)

\* the records of the tables under the headings titled v, from position t on
RECURSIVE RecordsUnder(_, _)
RecordsUnder(v, t) ==
    IF t > Len(ast) THEN <<>>
    ELSE (IF TableUnder(t, v) THEN extract_table_as_list(ast[t]) ELSE <<>>)
         \o RecordsUnder(v, t + 1)

\* C28 as stated: the map returned has one key per distinct title of a level-3
\* heading of the quotes section, and the list under a title holds the
\* records of every table lying under a heading with that title, in document
\* order, also when the title occurs more than once.
C28_Original ==
    pc = "quote_done" =>
        /\ DictKeys(qstate.quotes) = VersionTitles
        /\ \A v \in VersionTitles : DictGet(qstate.quotes, v) = RecordsUnder(v, 1)

-----------------------------------------------------------------------------
(* scripts/utils.py get_page_text: one action per request of the running   *)
(* call.  The wiki is a map from page titles to what the API answers:      *)
(*   [kind |-> "redirect", to |-> t]  HTML with a redirectMsg div linking t *)
(*   [kind |-> "nolink", ...]         a redirectMsg div without a titled link *)
(*   [kind |-> "html", ...]           a page without redirectMsg div        *)
(*   [kind |-> "noparse", ...]        JSON without the key "parse"          *)
(*   [kind |-> "notext", ...]         JSON whose "parse" has no key "text"  *)
(* A request can also fail in the network (httpx.ConnectTimeout or another *)
(* httpx.RequestError), which the retry decorator answers with a new       *)
(* attempt.  The recursive call goes through the decorated function, so    *)
(* every level has its own attempts; an exception of an inner level is no  *)
(* httpx error and passes through the outer levels unretried, a returned   *)
(* value is returned unchanged by them, so the state of the outer levels   *)
(* is not kept.  Every level of the recursion takes stack frames: the      *)
(* interpreter raises RecursionError at its recursion limit, for which     *)
(* RecursionLimit (counted in nested calls) stands.                        *)

Titles == {"A", "B", "C"}

\* stop_after_attempt(3)
MaxAttempts == 3

RecursionLimit == 4

Answer(k, t) == [kind |-> k, to |-> t]

Answers ==
    {Answer("redirect", t) : t \in Titles}
    \cup {Answer(k, "") : k \in {"nolink", "html", "noparse", "notext"}}

\* the answers for which data["parse"]["text"]["*"] has no value
Malformed == {"noparse", "notext"}

InitPage ==
    /\ pc = "page_call"
    /\ wiki \in [Titles -> Answers]
    /\ title \in Titles
    /\ redirect_count = 0
    /\ attempt = 1
    /\ outcome = ""
    /\ ast = <<>>
    /\ SegIdle
    /\ GroupIdle
    /\ ProfIdle
    /\ SelIdle
    /\ RecIdle
    /\ QuoteIdle
    /\ TextIdle
    /\ FlatIdle
    /\ DocIdle

\* the call is over: value or exception of the outermost call
PageEnds(how) ==
    /\ pc' = "page_done"
    /\ outcome' = how
    /\ UNCHANGED <<wiki, title, redirect_count, attempt>>
    /\ UNCHANGED notPage

\* ctx.get raises an httpx error, attempts are left: the call is made again
PageRetry ==
    /\ pc = "page_call"
    /\ attempt < MaxAttempts
    /\ attempt' = attempt + 1
    /\ UNCHANGED <<pc, wiki, title, redirect_count, outcome>>
    /\ UNCHANGED notPage

\* ctx.get raises an httpx error at the last attempt: tenacity raises RetryError
PageGiveUp ==
    /\ pc = "page_call"
    /\ attempt = MaxAttempts
    /\ PageEnds("RetryError")

\* line 146 on an answer without "parse" or "text": KeyError, logged at line
\* 173 and raised again; no httpx error, so no new attempt
PageMalformed ==
    /\ pc = "page_call"
    /\ wiki[title].kind \in Malformed
    /\ PageEnds("KeyError")

\* lines 158-164: the redirect is followed by a nested call
PageFollow ==
    /\ pc = "page_call"
    /\ wiki[title].kind = "redirect"
    /\ IF redirect_count + 1 >= RecursionLimit
       THEN PageEnds("RecursionError")
       ELSE /\ title' = wiki[title].to
            /\ redirect_count' = redirect_count + 1
            /\ attempt' = 1
            /\ UNCHANGED <<pc, wiki, outcome>>
            /\ UNCHANGED notPage

\* lines 165-167: a redirect without a titled link returns ""
PageNoLink ==
    /\ pc = "page_call"
    /\ wiki[title].kind = "nolink"
    /\ PageEnds("empty")

\* line 168: return clean_html(html)
PageHtml ==
    /\ pc = "page_call"
    /\ wiki[title].kind = "html"
    /\ PageEnds("html")

NextPage ==
    PageRetry \/ PageGiveUp \/ PageMalformed \/ PageFollow \/ PageNoLink \/ PageHtml

SpecPage == InitPage /\ [][NextPage]_vars

\* the event loop runs the coroutine as long as it can take a step
FairSpecPage == SpecPage /\ WF_vars(NextPage)

-----------------------------------------------------------------------------
(* Properties of get_page_text *)

\* C29 as stated: for every redirect graph the call ends, and it ends because
\* the redirects followed are bounded by redirect_count, not because the
\* interpreter runs out of stack.
C29_Original == <>(pc = "page_done" /\ outcome # "RecursionError")

\* C30 as stated: the call never ends with the KeyError of a missing "parse"
\* or "text" key; when the answer for the title lacks one of them and the
\* request got through, the call returns the empty string.
C30_Original ==
    /\ outcome # "KeyError"
    /\ (pc = "page_done" /\ wiki[title].kind \in Malformed /\ outcome # "RetryError")
           => outcome = "empty"

=============================================================================
